---- MODULE Spec2Model ----
(***************************************************************************)
(* StegSports-CFP, js/dashboard.js: the affiliate dashboard's click and    *)
(* conversion load (loadClicks) and its CSV export (buildCsvFromExport,    *)
(* downloadCsv), as a state machine. With it: the games of js/index.js and *)
(* their Tickets links, the search forms of js/tickets.js (in js/app.js),  *)
(* js/seatgeek.js and js/stubhub.js, and getABVariant of the public pages. *)
(*                                                                         *)
(* JavaScript runs each handler to its next await without interleaving, so *)
(* one action is one such run: the trigger up to the click request, the    *)
(* click response up to the conversions request or the return, the        *)
(* conversions response up to the return, the export click; a form's       *)
(* submit up to its request, and the request's settling up to the return.  *)
(*                                                                         *)
(* Text is a sequence of pieces. A piece is one character ("," the double  *)
(* quote, line feed, carriage return, or any character of a campaign id,   *)
(* an event name, a query string or a form field) or a run of characters   *)
(* none of which is one of those four. JavaScript values are records       *)
(* [t, h, s]: null or undefined (t = "null"), a number in hundredths       *)
(* (t = "num"), a string (t = "str"), an array (t = "list").               *)
(*                                                                         *)
(* loadStatus and loadNetworks, which DOMContentLoaded also starts, write  *)
(* to elements of their own and share no state with loadClicks or the      *)
(* export; they are left out. Spec runs the loads one at a time: a refresh *)
(* or a change of the window fires once the load before it has settled.    *)
(***************************************************************************)
EXTENDS Integers, Sequences, FiniteSets, TLC

\* ------------------------------------------------------------------ bounds

\* The largest click count the service reports for one campaign or provider.
MaxClicks == 1
\* The most entries in the conversions response's campaigns list.
MaxConvEntries == 2
\* The most calls of getABVariant, and changes of its stored item made by
\* anything else, that are followed.
MaxCalls == 3

\* ------------------------------------------------------------------- text

QUOTE == "\""
COMMA == ","
LF == "\n"
CR == "\r"
\* Stands for U+2014, the dash the tables show for a missing value.
EMDASH == "EM-DASH"

Printable ==
  << " ", "!", QUOTE, "#", "$", "%", "&", "'", "(", ")", "*", "+", COMMA, "-", ".", "/",
     "0", "1", "2", "3", "4", "5", "6", "7", "8", "9", ":", ";", "<", "=", ">", "?",
     "@", "A", "B", "C", "D", "E", "F", "G", "H", "I", "J", "K", "L", "M", "N", "O",
     "P", "Q", "R", "S", "T", "U", "V", "W", "X", "Y", "Z", "[", "\\", "]", "^", "_",
     "BACKTICK", "a", "b", "c", "d", "e", "f", "g", "h", "i", "j", "k", "l", "m", "n", "o",
     "p", "q", "r", "s", "t", "u", "v", "w", "x", "y", "z", "{", "|", "}", "~" >>

\* The UTF-16 code unit of a one-character piece (code 96, the backtick, is
\* written BACKTICK: the lexer does not take it in a string).
CharCode(c) ==
  IF c = LF THEN 10
  ELSE IF c = CR THEN 13
  ELSE 31 + (CHOOSE i \in 1..Len(Printable) : Printable[i] = c)

\* a < b as Array.prototype.sort compares two strings without a comparator:
\* by code units, a proper prefix first.
RECURSIVE StrLess(_, _)
StrLess(a, b) ==
  IF b = <<>> THEN FALSE
  ELSE IF a = <<>> THEN TRUE
  ELSE IF Head(a) = Head(b) THEN StrLess(Tail(a), Tail(b))
  ELSE CharCode(Head(a)) < CharCode(Head(b))

\* Object.keys(obj).sort(): the keys in ascending order, each once.
RECURSIVE SortedKeys(_)
SortedKeys(keys) ==
  IF keys = {} THEN <<>>
  ELSE LET least == CHOOSE k \in keys : \A o \in keys \ {k} : StrLess(k, o)
       IN <<least>> \o SortedKeys(keys \ {least})

RECURSIVE Join(_, _)
\* Array.prototype.join: the texts of parts with sep between them.
Join(parts, sep) ==
  IF parts = <<>> THEN <<>>
  ELSE IF Len(parts) = 1 THEN parts[1]
  ELSE parts[1] \o <<sep>> \o Join(Tail(parts), sep)

\* ----------------------------------------------------------------- values

Null == [t |-> "null", h |-> 0, s |-> <<>>]
Num(h) == [t |-> "num", h |-> h, s |-> <<>>]
\* A whole number.
Whole(n) == Num(100 * n)
Str(s) == [t |-> "str", h |-> 0, s |-> s]
\* An array.
List(s) == [t |-> "list", h |-> 0, s |-> s]

\* What `||` takes for false: null, undefined, 0 and the empty string.
Falsy(v) == v.t = "null" \/ (v.t = "num" /\ v.h = 0) \/ (v.t = "str" /\ v.s = <<>>)
\* a || b
Or(a, b) == IF Falsy(a) THEN b ELSE a
\* a ?? b
Coalesce(a, b) == IF a = Null THEN b ELSE a

RECURSIVE Digits(_)
Digits(n) ==
  IF n < 10 THEN <<Printable[17 + n]>>
  ELSE Digits(n \div 10) \o <<Printable[17 + (n % 10)]>>

\* String(x) of a non-negative number of hundredths: 5000 is "50", 1250 is
\* "12.5", 1667 is "16.67".
NumText(h) ==
  LET whole == Digits(h \div 100)
      frac == h % 100
  IN IF frac = 0 THEN whole
     ELSE IF frac % 10 = 0 THEN whole \o <<".">> \o Digits(frac \div 10)
     ELSE whole \o <<".">> \o Digits(frac \div 10) \o Digits(frac % 10)

\* String(val) of a value that is not null.
String(val) == IF val.t = "num" THEN NumText(val.h) ELSE val.s

\* ------------------------------------------------------- URLSearchParams

\* U+00B7, the dot in the event names.
MIDDOT == "·"

HexDigits == << "0", "1", "2", "3", "4", "5", "6", "7", "8", "9", "A", "B", "C", "D", "E", "F" >>
\* One byte percent-encoded: "%" and two upper-case hexadecimal digits.
PercentByte(b) == << "%", HexDigits[(b \div 16) + 1], HexDigits[(b % 16) + 1] >>

\* The UTF-8 bytes of a character: U+00B7 takes two, a character below
\* U+0080 one.
Utf8Bytes(c) == IF c = MIDDOT THEN <<194, 183>> ELSE <<CharCode(c)>>

\* The characters the application/x-www-form-urlencoded serializer leaves
\* as they are: the ASCII letters and digits, "*", "-", "." and "_".
FormSafe(c) ==
  /\ c # MIDDOT
  /\ LET code == CharCode(c)
     IN \/ code \in 48..57
        \/ code \in 65..90
        \/ code \in 97..122
        \/ c \in {"*", "-", ".", "_"}

RECURSIVE FormEncode(_)
\* The serializer's encoding of a text given character by character: a
\* space becomes "+", a character it does not leave alone its bytes, each
\* percent-encoded.
FormEncode(s) ==
  IF s = <<>> THEN <<>>
  ELSE LET c == Head(s)
           bytes == Utf8Bytes(c)
       IN (IF c = " " THEN <<"+">>
           ELSE IF FormSafe(c) THEN <<c>>
           ELSE IF Len(bytes) = 1 THEN PercentByte(bytes[1])
           ELSE PercentByte(bytes[1]) \o PercentByte(bytes[2]))
          \o FormEncode(Tail(s))

\* new URLSearchParams(): the list of name-value pairs, empty.
NewParams == <<>>

\* params.set(name, value): the value of the first pair of that name
\* replaced and the other pairs of that name removed, or the pair appended.
ParamsSet(params, name, value) ==
  IF \E k \in 1..Len(params) : params[k].name = name
  THEN LET first == CHOOSE k \in 1..Len(params) :
                      /\ params[k].name = name
                      /\ \A j \in 1..(k - 1) : params[j].name # name
           kept == SelectSeq([k \in 1..Len(params) |-> [at |-> k, pair |-> params[k]]],
                             LAMBDA e : e.pair.name # name \/ e.at = first)
       IN [k \in 1..Len(kept) |->
             IF kept[k].at = first THEN [name |-> name, value |-> value] ELSE kept[k].pair]
  ELSE Append(params, [name |-> name, value |-> value])

\* params.toString(): name=value of each pair, encoded, with "&" between.
ParamsToString(params) ==
  Join([k \in 1..Len(params) |->
          FormEncode(params[k].name) \o <<"=">> \o FormEncode(params[k].value)], "&")

\* The names of the tickets page's query parameters.
P_EVENT_NAME == <<"e", "v", "e", "n", "t", "_", "n", "a", "m", "e">>
P_CAMPAIGN_ID == <<"c", "a", "m", "p", "a", "i", "g", "n", "_", "i", "d">>
P_GROUP_SIZE == <<"g", "r", "o", "u", "p", "_", "s", "i", "z", "e">>
P_MAX_ROWS == <<"m", "a", "x", "_", "r", "o", "w", "s">>
\* The path of the tickets page, up to the query.
TICKETS_PAGE == <<"t", "i", "c", "k", "e", "t", "s", ".", "h", "t", "m", "l", "?">>

\* ------------------------------------------------------- the static tables

NONE == <<"n", "o", "n", "e">>
ROSE == <<"C", "F", "P", "-", "R", "O", "S", "E", "-", "2", "0", "2", "5">>
SUGAR == <<"C", "F", "P", "-", "S", "U", "G", "A", "R", "-", "2", "0", "2", "5">>
TITLE == <<"C", "F", "P", "-", "T", "I", "T", "L", "E", "-", "2", "0", "2", "5">>
\* A campaign id the table does not know, with a comma, a quote and a line
\* feed in it.
ODD == <<"a", COMMA, QUOTE, LF>>

NoMeta == [gameLabel |-> Null, eventName |-> Null, groupSize |-> Null, maxRows |-> Null]

\* The table with the Rose Bowl game's maxRows left at 1.
CAMPAIGN_META_Stale(cid) ==
  IF cid = ROSE THEN
    [gameLabel |-> Str(<<"Rose Bowl Semifinal">>),
     eventName |-> Str(<<"R", "o", "s", "e", " ", "B", "o", "w", "l", " ", "C", "F", "P", " ", "S",
         "e", "m", "i", "f", "i", "n", "a", "l", " ", MIDDOT, " ", "T", "e", "a", "m",
         " ", "1", " ", "v", "s", " ", "T", "e", "a", "m", " ", "4">>),
     groupSize |-> Whole(4), maxRows |-> Whole(1)]
  ELSE IF cid = SUGAR THEN
    [gameLabel |-> Str(<<"Sugar Bowl Semifinal">>),
     eventName |-> Str(<<"S", "u", "g", "a", "r", " ", "B", "o", "w", "l", " ", "C", "F", "P", " ",
         "S", "e", "m", "i", "f", "i", "n", "a", "l", " ", MIDDOT, " ", "T", "e", "a",
         "m", " ", "2", " ", "v", "s", " ", "T", "e", "a", "m", " ", "3">>),
     groupSize |-> Whole(4), maxRows |-> Whole(2)]
  ELSE IF cid = TITLE THEN
    [gameLabel |-> Str(<<"CFP National Championship">>),
     eventName |-> Str(<<"C", "o", "l", "l", "e", "g", "e", " ", "F", "o", "o", "t", "b", "a", "l",
         "l", " ", "P", "l", "a", "y", "o", "f", "f", " ", "N", "a", "t", "i", "o",
         "n", "a", "l", " ", "C", "h", "a", "m", "p", "i", "o", "n", "s", "h", "i",
         "p">>),
     groupSize |-> Whole(4), maxRows |-> Whole(2)]
  ELSE NoMeta

\* CAMPAIGN_META[cid] || {}
CAMPAIGN_META(cid) ==
  IF cid = ROSE THEN
    [gameLabel |-> Str(<<"Rose Bowl Semifinal">>),
     eventName |-> Str(<<"R", "o", "s", "e", " ", "B", "o", "w", "l", " ", "C", "F", "P", " ", "S",
         "e", "m", "i", "f", "i", "n", "a", "l", " ", MIDDOT, " ", "T", "e", "a", "m",
         " ", "1", " ", "v", "s", " ", "T", "e", "a", "m", " ", "4">>),
     groupSize |-> Whole(4), maxRows |-> Whole(2)]
  ELSE IF cid = SUGAR THEN
    [gameLabel |-> Str(<<"Sugar Bowl Semifinal">>),
     eventName |-> Str(<<"S", "u", "g", "a", "r", " ", "B", "o", "w", "l", " ", "C", "F", "P", " ",
         "S", "e", "m", "i", "f", "i", "n", "a", "l", " ", MIDDOT, " ", "T", "e", "a",
         "m", " ", "2", " ", "v", "s", " ", "T", "e", "a", "m", " ", "3">>),
     groupSize |-> Whole(4), maxRows |-> Whole(2)]
  ELSE IF cid = TITLE THEN
    [gameLabel |-> Str(<<"CFP National Championship">>),
     eventName |-> Str(<<"C", "o", "l", "l", "e", "g", "e", " ", "F", "o", "o", "t", "b", "a", "l",
         "l", " ", "P", "l", "a", "y", "o", "f", "f", " ", "N", "a", "t", "i", "o",
         "n", "a", "l", " ", "C", "h", "a", "m", "p", "i", "o", "n", "s", "h", "i",
         "p">>),
     groupSize |-> Whole(4), maxRows |-> Whole(2)]
  ELSE NoMeta

EmptyMeta ==
  [total_clicks |-> Null,
   click_window |-> [start_ts |-> Null, end_ts |-> Null],
   conv_window |-> [start_date |-> Null, end_date |-> Null],
   conv_window_days |-> Null,
   generated_at |-> Null]

\* { byCampaign: [], meta: {} }
EmptyExport == [byCampaign |-> <<>>, meta |-> EmptyMeta]

\* ------------------------------------------------------------ pure functions

\* getSelectedDays, of the select's value as Number reads it (0 stands for
\* every value that is empty, no number or not positive).
getSelectedDays(selValue) == IF selValue <= 0 THEN 30 ELSE selValue

\* formatCurrency, as its fallback writes it: the amount, a space, the code.
formatCurrency(amount, currency) ==
  IF amount = Null THEN <<EMDASH>>
  ELSE NumText(amount.h) \o <<" ">> \o String(Or(currency, Str(<<"USD">>)))

\* computeShare, in tenths of a percent ("0%" is 0).
computeShare(count, total) ==
  IF total <= 0 THEN 0 ELSE (2000 * count + total) \div (2 * total)

\* (revenue / clicks).toFixed(2): the quotient to the nearest hundredth,
\* written with its two decimals ("5.00", "16.67").
ToFixed2(revenueH, clicks) ==
  LET q == (2 * revenueH + clicks) \div (2 * clicks)
  IN Digits(q \div 100) \o <<".">> \o Digits((q % 100) \div 10) \o Digits(q % 10)

DigitValue(c) == CharCode(c) - 48

RECURSIVE ParseDigits(_, _)
ParseDigits(s, acc) ==
  IF s = <<>> THEN acc ELSE ParseDigits(Tail(s), 10 * acc + DigitValue(Head(s)))

\* Number(text) of a text toFixed(2) wrote: digits, the point, two digits.
NumberOfFixed(s) ==
  LET dot == CHOOSE i \in 1..Len(s) : s[i] = "."
  IN Num(100 * ParseDigits(SubSeq(s, 1, dot - 1), 0) + ParseDigits(SubSeq(s, dot + 1, Len(s)), 0))

\* computeRpc without its test of the revenue: Number(null) is 0.
computeRpc_NullRevenueAsZero(revenue, clicks) ==
  IF clicks <= 0 THEN <<EMDASH>>
  ELSE ToFixed2(IF revenue.t = "num" THEN revenue.h ELSE 0, clicks)

\* computeRpc: the dash, or the quotient as toFixed(2) writes it. A revenue
\* that is no number divides to NaN, which is not finite.
computeRpc(revenue, clicks) ==
  IF clicks <= 0 \/ revenue = Null THEN <<EMDASH>>
  ELSE IF revenue.t # "num" THEN <<EMDASH>>
  ELSE ToFixed2(revenue.h, clicks)

RECURSIVE DoubleQuotes(_)
\* s.replace(/"/g, '""')
DoubleQuotes(s) ==
  IF s = <<>> THEN <<>>
  ELSE (IF Head(s) = QUOTE THEN <<QUOTE, QUOTE>> ELSE <<Head(s)>>) \o DoubleQuotes(Tail(s))

\* /[",\n]/.test(s)
NeedsQuoting(s) == \E i \in 1..Len(s) : s[i] \in {QUOTE, COMMA, LF}

\* escapeCsvField without its first line: String(null) is "null".
escapeCsvField_NullAsText(val) ==
  LET s == IF val = Null THEN <<"null">> ELSE String(val)
  IN IF NeedsQuoting(s) THEN <<QUOTE>> \o DoubleQuotes(s) \o <<QUOTE>> ELSE s

escapeCsvField(val) ==
  IF val = Null THEN <<>>
  ELSE LET s == String(val)
       IN IF NeedsQuoting(s) THEN <<QUOTE>> \o DoubleQuotes(s) \o <<QUOTE>> ELSE s

CsvHeader ==
  << <<"campaign_id">>, <<"game_label">>, <<"clicks">>, <<"conversions">>, <<"revenue">>,
     <<"currency">>, <<"revenue_per_click">>, <<"generated_at">>,
     <<"click_window_start_ts">>, <<"click_window_end_ts">>, <<"conv_window_days">>,
     <<"conv_window_start_date">>, <<"conv_window_end_date">> >>

\* The data line with conversions written before clicks.
CsvLineFields_ConversionsFirst(r, meta) ==
  << escapeCsvField(Str(r.campaign_id)),
     escapeCsvField(r.game_label),
     escapeCsvField(r.conversions),
     escapeCsvField(r.clicks),
     escapeCsvField(r.revenue),
     escapeCsvField(r.currency),
     escapeCsvField(r.revenue_per_click),
     escapeCsvField(Or(meta.generated_at, Str(<<>>))),
     escapeCsvField(Or(meta.click_window.start_ts, Str(<<>>))),
     escapeCsvField(Or(meta.click_window.end_ts, Str(<<>>))),
     escapeCsvField(Or(meta.conv_window_days, Str(<<>>))),
     escapeCsvField(Or(meta.conv_window.start_date, Str(<<>>))),
     escapeCsvField(Or(meta.conv_window.end_date, Str(<<>>))) >>

\* The data line with a revenue per click worked out for a row that has none.
CsvLineFields_ComputedRpc(r, meta) ==
  LET rpc == IF r.clicks = Null THEN <<EMDASH>> ELSE computeRpc(r.revenue, r.clicks.h \div 100)
  IN << escapeCsvField(Str(r.campaign_id)),
        escapeCsvField(r.game_label),
        escapeCsvField(r.clicks),
        escapeCsvField(r.conversions),
        escapeCsvField(r.revenue),
        escapeCsvField(r.currency),
        escapeCsvField(IF r.revenue_per_click # Null THEN r.revenue_per_click
                       ELSE IF rpc = <<EMDASH>> THEN Null ELSE NumberOfFixed(rpc)),
        escapeCsvField(Or(meta.generated_at, Str(<<>>))),
        escapeCsvField(Or(meta.click_window.start_ts, Str(<<>>))),
        escapeCsvField(Or(meta.click_window.end_ts, Str(<<>>))),
        escapeCsvField(Or(meta.conv_window_days, Str(<<>>))),
        escapeCsvField(Or(meta.conv_window.start_date, Str(<<>>))),
        escapeCsvField(Or(meta.conv_window.end_date, Str(<<>>))) >>

\* One data line of buildCsvFromExport: the thirteen escaped fields in order.
CsvLineFields(r, meta) ==
  << escapeCsvField(Str(r.campaign_id)),
     escapeCsvField(r.game_label),
     escapeCsvField(r.clicks),
     escapeCsvField(r.conversions),
     escapeCsvField(r.revenue),
     escapeCsvField(r.currency),
     escapeCsvField(r.revenue_per_click),
     escapeCsvField(Or(meta.generated_at, Str(<<>>))),
     escapeCsvField(Or(meta.click_window.start_ts, Str(<<>>))),
     escapeCsvField(Or(meta.click_window.end_ts, Str(<<>>))),
     escapeCsvField(Or(meta.conv_window_days, Str(<<>>))),
     escapeCsvField(Or(meta.conv_window.start_date, Str(<<>>))),
     escapeCsvField(Or(meta.conv_window.end_date, Str(<<>>))) >>

\* buildCsvFromExport without its test for no rows: the header alone.
buildCsvFromExport_HeaderOnly(export) ==
  LET rows == export.byCampaign
      csvLines == <<Join(CsvHeader, COMMA)>> \o
                  [i \in 1..Len(rows) |-> Join(CsvLineFields(rows[i], export.meta), COMMA)]
  IN Str(Join(csvLines, LF))

\* buildCsvFromExport, of the snapshot it reads: null, or the text.
buildCsvFromExport(export) ==
  LET rows == export.byCampaign
      csvLines == <<Join(CsvHeader, COMMA)>> \o
                  [i \in 1..Len(rows) |-> Join(CsvLineFields(rows[i], export.meta), COMMA)]
  IN IF Len(rows) = 0 THEN Null ELSE Str(Join(csvLines, LF))

\* --------------------------------------------------------------- fetchJSON

\* A response: the fetch rejected (net), or a status with its body, as
\* res.json() reads it (json; Null for a body that is no JSON) and as
\* res.text() reads it (text).

\* fetchJSON without its test of res.ok.
fetchJSON_AnyStatus(resp) ==
  IF resp.net THEN
    [ok |-> FALSE, data |-> Null, error |-> <<"TypeError: Failed to fetch">>]
  ELSE IF resp.json # Null THEN
    [ok |-> TRUE, data |-> resp.json, error |-> <<>>]
  ELSE
    [ok |-> FALSE, data |-> Null, error |-> <<"SyntaxError">>]

\* fetchJSON: the parsed body, or the error thrown (ok false, no data).
fetchJSON(resp) ==
  IF resp.net THEN
    [ok |-> FALSE, data |-> Null, error |-> <<"TypeError: Failed to fetch">>]
  ELSE IF resp.status \notin 200..299 THEN
    [ok |-> FALSE, data |-> Null,
     error |-> <<"Error: HTTP ">> \o Digits(resp.status) \o <<": ">> \o resp.text]
  ELSE IF resp.json # Null THEN
    [ok |-> TRUE, data |-> resp.json, error |-> <<>>]
  ELSE
    [ok |-> FALSE, data |-> Null, error |-> <<"SyntaxError">>]

\* No response handed over yet, and no outcome.
NoResponse == [net |-> TRUE, status |-> 0, json |-> Null, text |-> <<>>]
NoOutcome == [pending |-> TRUE, ok |-> FALSE, data |-> Null, error |-> <<>>]

\* ------------------------------------------------- what the service answers

EmptyMap == [k \in {} |-> 0]

CampaignUniverse == {NONE, ROSE, ODD}
SEATGEEK == <<"s", "e", "a", "t", "g", "e", "e", "k">>
STUBHUB == <<"s", "t", "u", "b", "h", "u", "b">>
ProviderUniverse == {SEATGEEK, STUBHUB}

RECURSIVE SumOf(_)
SumOf(f) ==
  IF DOMAIN f = {} THEN 0
  ELSE LET k == CHOOSE x \in DOMAIN f : TRUE
       IN f[k] + SumOf([x \in DOMAIN f \ {k} |-> f[x]])

ByCampaignMaps == UNION { [S -> 0..MaxClicks] : S \in SUBSET CampaignUniverse }

\* The rest of a click summary, in two forms: a summary of no click at all
\* (no window, no provider) and one with a window that starts at second 0
\* and both providers.
ClickEnvelopes ==
  { [window |-> [start_ts |-> Null, end_ts |-> Null], by_provider |-> EmptyMap],
    [window |-> [start_ts |-> Whole(0), end_ts |-> Whole(2000)],
     by_provider |-> [p \in ProviderUniverse |-> IF p = SEATGEEK THEN 0 ELSE MaxClicks]] }

\* The click summaries: every map of campaigns, the total their sum.
ClickSummaries ==
  { [total_clicks |-> Whole(SumOf(c)), limit |-> Whole(200), window |-> e.window,
     by_provider |-> e.by_provider, by_campaign |-> c] :
    c \in ByCampaignMaps, e \in ClickEnvelopes }

NoClickData ==
  [total_clicks |-> Null, limit |-> Null, window |-> [start_ts |-> Null, end_ts |-> Null],
   by_provider |-> EmptyMap, by_campaign |-> EmptyMap]

\* What an entry of the conversions list says of its campaign: two
\* conversions worth 50.00 EUR, or none, worth 0, with no currency named.
ConvStats ==
  { [conversions |-> Whole(2), revenue |-> Num(5000), currency |-> Str(<<"EUR">>)],
    [conversions |-> Whole(0), revenue |-> Num(0), currency |-> Null] }

ConvEntries ==
  { [campaign_id |-> cid, conversions |-> s.conversions, revenue |-> s.revenue,
     currency |-> s.currency] : cid \in CampaignUniverse, s \in ConvStats }

ConvWindows ==
  { [start_date |-> Null, end_date |-> Null],
    [start_date |-> Str(<<"2025-11-03">>), end_date |-> Str(<<"2025-12-03">>)] }

ConvSummaries ==
  { [campaigns |-> cs, window |-> w] :
    cs \in UNION { [1..n -> ConvEntries] : n \in 0..MaxConvEntries }, w \in ConvWindows }

NoConvData == [campaigns |-> <<>>, window |-> [start_date |-> Null, end_date |-> Null]]

FailureTexts == { <<"boom">> }
FailureStatuses == {404, 500}

Failures(noData) ==
  { [net |-> TRUE, status |-> 0, json |-> noData, text |-> <<>>] } \cup
  { [net |-> FALSE, status |-> s, json |-> noData, text |-> b] :
    s \in FailureStatuses, b \in FailureTexts }

ClickResponses ==
  { [net |-> FALSE, status |-> 200, json |-> cd, text |-> <<>>] : cd \in ClickSummaries }
    \cup Failures(NoClickData)

ConvResponses ==
  { [net |-> FALSE, status |-> 200, json |-> cv, text |-> <<>>] : cv \in ConvSummaries }
    \cup Failures(NoConvData)

\* new Date().toISOString() at the time of the merge.
IsoNow == <<"2025-12-03T14:00:00.000Z">>

\* The values the window select offers (0: no usable value).
SelectValues == {0, 7}

\* ------------------------------------------------------------------- state

\* The loadClicks invocations that can be under way at once.
NumLoads == 2
Loads == 1..NumLoads

VARIABLES
  windowSelect,      \* the value of #window-select
  load,              \* per invocation of loadClicks: where it is and its locals
  AFFILIATE_EXPORT,  \* the snapshot kept for the export
  metaText,          \* #clicks-meta
  exportMeta,        \* #export-meta
  tableProvShown,    \* #clicks-table-provider is displayed
  bodyProv,          \* the rows of #clicks-body-provider
  tableCampShown,    \* #clicks-table-campaign is displayed
  bodyCamp,          \* the rows of #clicks-body-campaign
  exportBtnDisabled, \* #export-btn
  download,          \* the file the latest handler run handed to the browser
  domReady,          \* DOMContentLoaded has fired
  csvField,          \* a value handed to escapeCsvField
  csvEscaped,        \* what escapeCsvField returned for it (none yet: pending)
  fetchResponse,     \* a response handed to fetchJSON
  fetchOutcome,      \* what fetchJSON made of it (none yet: pending)
  submitBtn,         \* tickets page: #submit-btn, disabled or not and its text
  formError,         \* tickets page: #form-error, displayed or not and its text
  resultsCard,       \* tickets page: #results-card and the elements in it
  ticketsRun,        \* tickets page: where handleSubmit is and its request
  cfpSubmit,         \* seatgeek and stubhub pages: #cfp-submit is disabled
  resultsBox,        \* seatgeek and stubhub pages: #results
  cfpRun,            \* seatgeek and stubhub pages: where the submit handler is
  abStorage,         \* localStorage's item under AB_STORAGE_KEY
  storageAccess,     \* what localStorage lets a page do
  abCalls            \* the calls of getABVariant so far, each with what it did

vars ==
  << windowSelect, load, AFFILIATE_EXPORT, metaText, exportMeta, tableProvShown, bodyProv,
     tableCampShown, bodyCamp, exportBtnDisabled, download, domReady, csvField, csvEscaped,
     fetchResponse, fetchOutcome, submitBtn, formError, resultsCard, ticketsRun, cfpSubmit,
     resultsBox, cfpRun, abStorage, storageAccess, abCalls >>

fetchVars == << fetchResponse, fetchOutcome >>

formVars == << submitBtn, formError, resultsCard, ticketsRun, cfpSubmit, resultsBox, cfpRun >>

abVars == << abStorage, storageAccess, abCalls >>

fieldVars == << csvField, csvEscaped >>

pageVars ==
  << windowSelect, load, AFFILIATE_EXPORT, metaText, exportMeta, tableProvShown, bodyProv,
     tableCampShown, bodyCamp, exportBtnDisabled, download, domReady >>

domVars == << metaText, exportMeta, tableProvShown, bodyProv, tableCampShown, bodyCamp >>

MsgInitial == "(as the page is served)"
MsgUsesCurrent == "CSV uses current click + conversion data in tables below."
MsgNoCampaigns == "No campaign clicks yet - CSV export will be empty."
MsgClicksOnly == "Conversions API error - CSV will include clicks only."
MsgReady == "CSV is ready - includes one row per campaign with game, clicks, conversions, and revenue for the selected window."
MsgLoadError == "Error loading data - CSV export is not available."
MsgNoExport == "No exportable data yet - make sure clicks and conversions are loaded."
MsgDownloaded == "CSV downloaded - includes game names and the selected conversions window."

NoConvReq == [campaign_ids |-> {}, days |-> 0]

\* clickPending and convPending: the request is out and not answered yet;
\* clickRequests and convRequests: how many the invocation has issued.
IdleLoad ==
  [pc |-> "idle", days |-> 0, clickData |-> NoClickData, convReq |-> NoConvReq,
   error |-> <<>>, path |-> "none",
   clickPending |-> FALSE, convPending |-> FALSE, clickRequests |-> 0, convRequests |-> 0]

\* #clicks-meta: which text it holds and the parts that vary in it.
MetaText(kind, days, limit, total, clickWindow, err) ==
  [kind |-> kind, days |-> days, limit |-> limit, total |-> total, clickWindow |-> clickWindow,
   err |-> err, convErr |-> <<>>, convWindow |-> [start_date |-> Null, end_date |-> Null]]

NoWindow == [start_ts |-> Null, end_ts |-> Null]

\* Stands for U+2026, the ellipsis of "Searching..." and "Awaiting search...".
ELLIPSIS == "ELLIPSIS"

LabelSearch == <<"Search tickets">>
LabelSearching == <<"Searching", ELLIPSIS>>
MsgEnterEventName == <<"Please enter an event name.">>
MsgAwaiting == <<"Awaiting search", ELLIPSIS>>
MsgWentWrong == <<"Something went wrong loading tickets. Try again in a minute.">>

\* The pages with the #cfp-form form.
CfpPages == {"seatgeek", "stubhub"}

NoParams == [none |-> TRUE]
\* #results-card as the page comes: not displayed, nothing rendered in it.
NoResults ==
  [shown |-> FALSE, rawJson |-> [text |-> MsgAwaiting], pill |-> <<>>, pillClass |-> <<>>,
   meta |-> <<>>, grid |-> <<>>]

\* The ticket forms as their pages come: no handler running, the buttons
\* enabled, nothing shown.
FormsIdle ==
  /\ submitBtn = [disabled |-> FALSE, text |-> LabelSearch]
  /\ formError = [shown |-> FALSE, text |-> <<>>]
  /\ resultsCard = NoResults
  /\ ticketsRun = [pc |-> "idle", params |-> NoParams, last |-> "none"]
  /\ cfpSubmit = [pg \in CfpPages |-> FALSE]
  /\ resultsBox = [pg \in CfpPages |-> [kind |-> "empty"]]
  /\ cfpRun = [pg \in CfpPages |-> [pc |-> "idle", params |-> NoParams, last |-> "none"]]

\* localStorage readable and writable, no variant in it, no call made.
NoVariantYet ==
  /\ abStorage = Null
  /\ storageAccess = "open"
  /\ abCalls = <<>>

PageInit ==
  /\ windowSelect \in SelectValues
  /\ load = [i \in Loads |-> IdleLoad]
  /\ AFFILIATE_EXPORT = EmptyExport
  /\ metaText = MetaText("initial", 0, Null, Null, NoWindow, <<>>)
  /\ exportMeta = MsgInitial
  /\ tableProvShown = FALSE
  /\ bodyProv = <<>>
  /\ tableCampShown = FALSE
  /\ bodyCamp = <<>>
  /\ exportBtnDisabled = FALSE
  /\ download = Null
  /\ domReady = FALSE

Init ==
  /\ PageInit
  /\ csvField = Null
  /\ csvEscaped = [pending |-> TRUE, text |-> <<>>]
  /\ fetchResponse = NoResponse
  /\ fetchOutcome = NoOutcome
  /\ FormsIdle
  /\ NoVariantYet

\* ------------------------------------------------------------- loadClicks

InFlight == { i \in Loads : load[i].pc \in {"clicks", "conv"} }
Quiescent == InFlight = {}
\* The slot a new invocation takes: the lowest one no invocation is using.
NextSlot == CHOOSE i \in Loads \ InFlight : \A j \in Loads \ InFlight : i <= j

\* loadClicks leaving the snapshot as it is until its merge.
loadClicks_KeepSnapshot(i, selected) ==
  LET days == getSelectedDays(selected)
  IN /\ load[i].pc \in {"idle", "done"}
     /\ metaText' = MetaText("loading", days, Null, Null, NoWindow, <<>>)
     /\ tableProvShown' = FALSE
     /\ tableCampShown' = FALSE
     /\ bodyProv' = <<>>
     /\ bodyCamp' = <<>>
     /\ AFFILIATE_EXPORT' = AFFILIATE_EXPORT
     /\ exportMeta' = MsgUsesCurrent
     /\ load' = [load EXCEPT ![i] = [IdleLoad EXCEPT !.pc = "clicks", !.days = days,
                                                     !.clickPending = TRUE, !.clickRequests = 1]]

\* loadClicks issuing both requests at once.
loadClicks_BothRequests(i, selected) ==
  LET days == getSelectedDays(selected)
  IN /\ load[i].pc \in {"idle", "done"}
     /\ metaText' = MetaText("loading", days, Null, Null, NoWindow, <<>>)
     /\ tableProvShown' = FALSE
     /\ tableCampShown' = FALSE
     /\ bodyProv' = <<>>
     /\ bodyCamp' = <<>>
     /\ AFFILIATE_EXPORT' = EmptyExport
     /\ exportMeta' = MsgUsesCurrent
     /\ load' = [load EXCEPT ![i] = [IdleLoad EXCEPT !.pc = "clicks", !.days = days,
                                                     !.clickPending = TRUE, !.clickRequests = 1,
                                                     !.convPending = TRUE, !.convRequests = 1]]

\* Lines 189-212: the run from the call to the click-summary request;
\* selected is the value of the select as getSelectedDays reads it.
loadClicks(i, selected) ==
  LET days == getSelectedDays(selected)
  IN /\ load[i].pc \in {"idle", "done"}
     /\ metaText' = MetaText("loading", days, Null, Null, NoWindow, <<>>)
     /\ tableProvShown' = FALSE
     /\ tableCampShown' = FALSE
     /\ bodyProv' = <<>>
     /\ bodyCamp' = <<>>
     /\ AFFILIATE_EXPORT' = EmptyExport
     /\ exportMeta' = MsgUsesCurrent
     /\ load' = [load EXCEPT ![i] = [IdleLoad EXCEPT !.pc = "clicks", !.days = days,
                                                     !.clickPending = TRUE, !.clickRequests = 1]]

\* Lines 230-252: one provider row per key, in sorted order.
ProviderRows(byProvider, total) ==
  LET providers == SortedKeys(DOMAIN byProvider)
  IN [k \in 1..Len(providers) |->
        [name |-> providers[k], count |-> byProvider[providers[k]],
         share |-> computeShare(byProvider[providers[k]], total)]]

\* Line 255 without its filter.
CampaignIds_KeepNone(byCampaign) == DOMAIN byCampaign

\* Line 255 keeping the campaigns with a count above 0.
CampaignIds_WithClicks(byCampaign) ==
  { cid \in DOMAIN byCampaign : cid # NONE /\ byCampaign[cid] > 0 }

\* Line 255: Object.keys(byCampaign).filter((cid) => cid !== "none")
CampaignIds(byCampaign) == { cid \in DOMAIN byCampaign : cid # NONE }

\* The orders Object.keys can list a set of keys in: the order the response
\* names them in, which the map does not keep.
KeyOrders(keys) ==
  { o \in [1..Cardinality(keys) -> keys] :
      \A a, b \in 1..Cardinality(keys) : a # b => o[a] # o[b] }

\* Line 267: campaignIds.join(","), of the ids in the order of the keys.
CampaignIdsParam(order) == Join(order, COMMA)

\* The catch of the outer try showing a message of its own for the error.
CatchLoadError_Generic(i, e) ==
  /\ metaText' = MetaText("error", load[i].days, Null, Null, NoWindow, <<>>)
  /\ tableProvShown' = FALSE
  /\ tableCampShown' = FALSE
  /\ AFFILIATE_EXPORT' = EmptyExport
  /\ exportMeta' = MsgLoadError
  /\ UNCHANGED << bodyProv, bodyCamp >>
  /\ load' = [load EXCEPT ![i].pc = "done", ![i].path = "fatal", ![i].error = e,
                          ![i].clickPending = FALSE]

\* Lines 384-391: the catch of the outer try.
CatchLoadError(i, e) ==
  /\ metaText' = MetaText("error", load[i].days, Null, Null, NoWindow, e)
  /\ tableProvShown' = FALSE
  /\ tableCampShown' = FALSE
  /\ AFFILIATE_EXPORT' = EmptyExport
  /\ exportMeta' = MsgLoadError
  /\ UNCHANGED << bodyProv, bodyCamp >>
  /\ load' = [load EXCEPT ![i].pc = "done", ![i].path = "fatal", ![i].error = e,
                          ![i].clickPending = FALSE]

\* The run storing the total in the snapshot when it returns early.
OnClickData_TotalInSnapshot(i, clickData) ==
  LET total == Or(clickData.total_clicks, Whole(0))
      byProvider == clickData.by_provider
      byCampaign == clickData.by_campaign
      rows == ProviderRows(byProvider, total.h \div 100)
      campaignIds == CampaignIds(byCampaign)
      window == clickData.window
      windowText == IF ~Falsy(window.start_ts) /\ ~Falsy(window.end_ts) THEN window ELSE NoWindow
  IN /\ metaText' = MetaText("total", load[i].days, Coalesce(clickData.limit, Whole(200)),
                             total, windowText, <<>>)
     /\ bodyProv' = bodyProv \o rows
     /\ tableProvShown' = (tableProvShown \/ Len(rows) > 0)
     /\ UNCHANGED bodyCamp
     /\ IF campaignIds = {}
        THEN /\ AFFILIATE_EXPORT' = [AFFILIATE_EXPORT EXCEPT !.meta.total_clicks = total]
             /\ tableCampShown' = FALSE
             /\ exportMeta' = MsgNoCampaigns
             /\ load' = [load EXCEPT ![i].pc = "done", ![i].path = "empty",
                                     ![i].clickData = clickData, ![i].clickPending = FALSE]
        ELSE /\ UNCHANGED << AFFILIATE_EXPORT, tableCampShown, exportMeta >>
             /\ load' = [load EXCEPT ![i].pc = "conv", ![i].clickData = clickData,
                           ![i].clickPending = FALSE,
                           ![i].convReq = [campaign_ids |-> campaignIds, days |-> load[i].days],
                           ![i].convPending = TRUE,
                           ![i].convRequests = load[i].convRequests + 1]

\* Lines 214-269: the run from the click summary to the conversions request,
\* or to the return when no campaign but "none" has clicks.
OnClickData(i, clickData) ==
  LET total == Or(clickData.total_clicks, Whole(0))
      byProvider == clickData.by_provider
      byCampaign == clickData.by_campaign
      rows == ProviderRows(byProvider, total.h \div 100)
      campaignIds == CampaignIds(byCampaign)
      window == clickData.window
      windowText == IF ~Falsy(window.start_ts) /\ ~Falsy(window.end_ts) THEN window ELSE NoWindow
  IN /\ metaText' = MetaText("total", load[i].days, Coalesce(clickData.limit, Whole(200)),
                             total, windowText, <<>>)
     /\ bodyProv' = bodyProv \o rows
     /\ tableProvShown' = (tableProvShown \/ Len(rows) > 0)
     /\ UNCHANGED << AFFILIATE_EXPORT, bodyCamp >>
     /\ IF campaignIds = {}
        THEN /\ tableCampShown' = FALSE
             /\ exportMeta' = MsgNoCampaigns
             /\ load' = [load EXCEPT ![i].pc = "done", ![i].path = "empty",
                                     ![i].clickData = clickData, ![i].clickPending = FALSE]
        ELSE /\ UNCHANGED << tableCampShown, exportMeta >>
             /\ load' = [load EXCEPT ![i].pc = "conv", ![i].clickData = clickData,
                           ![i].clickPending = FALSE,
                           ![i].convReq = [campaign_ids |-> campaignIds, days |-> load[i].days],
                           ![i].convPending = TRUE,
                           ![i].convRequests = load[i].convRequests + 1]

\* The click-summary request of invocation i is answered.
ClickResponse(i, resp) ==
  /\ load[i].pc = "clicks"
  /\ LET r == fetchJSON(resp)
     IN IF r.ok THEN OnClickData(i, r.data) ELSE CatchLoadError(i, r.error)
  /\ download' = Null
  /\ UNCHANGED << windowSelect, exportBtnDisabled, domReady, csvField, csvEscaped, fetchVars,
                  formVars, abVars >>

RECURSIVE ConvMapAt_ZeroRevenue(_, _)
\* The lookup with a revenue of 0 for a campaign the list does not name.
ConvMapAt_ZeroRevenue(campaigns, cid) ==
  IF campaigns = <<>> THEN [conversions |-> Null, revenue |-> Num(0), currency |-> Null]
  ELSE LET c == campaigns[Len(campaigns)]
       IN IF c.campaign_id = cid
          THEN [conversions |-> c.conversions, revenue |-> c.revenue, currency |-> c.currency]
          ELSE ConvMapAt_ZeroRevenue(SubSeq(campaigns, 1, Len(campaigns) - 1), cid)

RECURSIVE ConvMapAt(_, _)
\* Lines 279-282 and 297: convMap[cid] || {}, the last entry of the list whose
\* String(campaign_id) is cid.
ConvMapAt(campaigns, cid) ==
  IF campaigns = <<>> THEN [conversions |-> Null, revenue |-> Null, currency |-> Null]
  ELSE LET c == campaigns[Len(campaigns)]
       IN IF c.campaign_id = cid
          THEN [conversions |-> c.conversions, revenue |-> c.revenue, currency |-> c.currency]
          ELSE ConvMapAt(SubSeq(campaigns, 1, Len(campaigns) - 1), cid)

\* Line 290 taking only the keys with clicks.
CampaignsSorted_SkipZero(byCampaign) ==
  SortedKeys({ cid \in DOMAIN byCampaign : byCampaign[cid] > 0 })

\* Line 290: Object.keys(byCampaign).sort()
CampaignsSorted(byCampaign) == SortedKeys(DOMAIN byCampaign)

\* Lines 294-304: the values one campaign's row is made of.
RowValues(cid, byCampaign, campaigns) ==
  LET stats == ConvMapAt(campaigns, cid)
      rev == Coalesce(stats.revenue, Null)
  IN [clicks |-> byCampaign[cid],
      label |-> IF cid = NONE THEN <<"(none)">> ELSE cid,
      conv |-> Coalesce(stats.conversions, Whole(0)),
      rev |-> rev,
      currency |-> Or(stats.currency, Str(<<"USD">>)),
      rpc |-> computeRpc(rev, byCampaign[cid]),
      metaInfo |-> CAMPAIGN_META(cid),
      gameLabel |-> Or(CAMPAIGN_META(cid).gameLabel, Str(<<>>))]

\* Lines 358-367: the row collected for the CSV.
ExportRow(cid, byCampaign, campaigns) ==
  LET v == RowValues(cid, byCampaign, campaigns)
  IN [campaign_id |-> cid,
      game_label |-> Or(v.gameLabel, Null),
      clicks |-> Whole(v.clicks),
      conversions |-> v.conv,
      revenue |-> v.rev,
      currency |-> v.currency,
      revenue_per_click |-> IF v.rpc = <<EMDASH>> THEN Null ELSE NumberOfFixed(v.rpc)]

\* Lines 337-349: the href of a row's Tickets link, the parameters the
\* table has for the campaign and no others.
TicketsHref(cid, metaInfo) ==
  LET p0 == NewParams
      p1 == IF ~Falsy(metaInfo.eventName)
            THEN ParamsSet(p0, P_EVENT_NAME, String(metaInfo.eventName)) ELSE p0
      p2 == ParamsSet(p1, P_CAMPAIGN_ID, cid)
      p3 == IF ~Falsy(metaInfo.groupSize)
            THEN ParamsSet(p2, P_GROUP_SIZE, String(metaInfo.groupSize)) ELSE p2
      p4 == IF ~Falsy(metaInfo.maxRows)
            THEN ParamsSet(p3, P_MAX_ROWS, String(metaInfo.maxRows)) ELSE p3
  IN TICKETS_PAGE \o ParamsToString(p4)

\* The hrefs of the campaigns a click summary can name, each built from
\* the campaign's metaInfo, CAMPAIGN_META[cid] || {}.
TicketsHrefOf == [cid \in CampaignUniverse |-> TicketsHref(cid, CAMPAIGN_META(cid))]

\* Lines 306-356: the table row appended to #clicks-body-campaign.
TableRow(cid, byCampaign, campaigns) ==
  LET v == RowValues(cid, byCampaign, campaigns)
  IN [game |-> String(Or(v.gameLabel, Str(<<EMDASH>>))),
      campaign |-> v.label,
      clicks |-> NumText(100 * v.clicks),
      conversions |-> IF v.conv = Null THEN <<EMDASH>> ELSE String(v.conv),
      revenue |-> IF v.rev = Null THEN <<EMDASH>> ELSE formatCurrency(v.rev, v.currency),
      rpc |-> IF v.rpc = <<EMDASH>> THEN <<EMDASH>> ELSE v.rpc \o <<" / click">>,
      tickets |-> IF v.label # <<"(none)">>
                  THEN [link |-> TRUE, href |-> TicketsHrefOf[cid]]
                  ELSE [link |-> FALSE, href |-> <<>>]]

\* exportRows collected in the keys' descending order.
ExportRows_Descending(byCampaign, campaigns) ==
  LET sorted == CampaignsSorted(byCampaign)
  IN [k \in 1..Len(sorted) |-> ExportRow(sorted[Len(sorted) + 1 - k], byCampaign, campaigns)]

\* Lines 289-293 and 358-368: exportRows, one row per sorted key.
ExportRows(byCampaign, campaigns) ==
  LET sorted == CampaignsSorted(byCampaign)
  IN [k \in 1..Len(sorted) |-> ExportRow(sorted[k], byCampaign, campaigns)]

TableRows(byCampaign, campaigns) ==
  LET sorted == CampaignsSorted(byCampaign)
  IN [k \in 1..Len(sorted) |-> TableRow(sorted[k], byCampaign, campaigns)]

\* The snapshot stamped with the window selected when it is stored, not
\* with the one the invocation read when it started.
MergedExport_DaysAtWrite(clickData, convData, days) ==
  [byCampaign |-> ExportRows(clickData.by_campaign, convData.campaigns),
   meta |-> [total_clicks |-> Or(clickData.total_clicks, Whole(0)),
             click_window |-> clickData.window,
             conv_window |-> convData.window,
             conv_window_days |-> Whole(getSelectedDays(windowSelect)),
             generated_at |-> Str(IsoNow)]]

\* Lines 372-381: the snapshot a completed merge stores.
MergedExport(clickData, convData, days) ==
  [byCampaign |-> ExportRows(clickData.by_campaign, convData.campaigns),
   meta |-> [total_clicks |-> Or(clickData.total_clicks, Whole(0)),
             click_window |-> clickData.window,
             conv_window |-> convData.window,
             conv_window_days |-> Whole(days),
             generated_at |-> Str(IsoNow)]]

\* The run adding its rows to those the snapshot holds.
OnConvData_AppendRows(i, convData) ==
  LET clickData == load[i].clickData
      merged == MergedExport(clickData, convData, load[i].days)
  IN /\ metaText' = [metaText EXCEPT !.convWindow =
                       IF ~Falsy(convData.window.start_date) /\ ~Falsy(convData.window.end_date)
                       THEN convData.window ELSE metaText.convWindow]
     /\ bodyCamp' = bodyCamp \o TableRows(clickData.by_campaign, convData.campaigns)
     /\ tableCampShown' = TRUE
     /\ AFFILIATE_EXPORT' = [merged EXCEPT !.byCampaign = AFFILIATE_EXPORT.byCampaign \o @]
     /\ exportMeta' = MsgReady
     /\ UNCHANGED << tableProvShown, bodyProv >>
     /\ load' = [load EXCEPT ![i].pc = "done", ![i].path = "ok", ![i].convPending = FALSE]

\* Lines 279-383: the run from the conversions summary to the end.
OnConvData(i, convData) ==
  LET clickData == load[i].clickData
  IN /\ metaText' = [metaText EXCEPT !.convWindow =
                       IF ~Falsy(convData.window.start_date) /\ ~Falsy(convData.window.end_date)
                       THEN convData.window ELSE metaText.convWindow]
     /\ bodyCamp' = bodyCamp \o TableRows(clickData.by_campaign, convData.campaigns)
     /\ tableCampShown' = TRUE
     /\ AFFILIATE_EXPORT' = MergedExport(clickData, convData, load[i].days)
     /\ exportMeta' = MsgReady
     /\ UNCHANGED << tableProvShown, bodyProv >>
     /\ load' = [load EXCEPT ![i].pc = "done", ![i].path = "ok", ![i].convPending = FALSE]

\* The catch of the conversions request sending the request once more.
CatchConvError_Retry(i, e) ==
  /\ metaText' = [metaText EXCEPT !.convErr = e]
  /\ tableCampShown' = FALSE
  /\ exportMeta' = MsgClicksOnly
  /\ UNCHANGED << AFFILIATE_EXPORT, tableProvShown, bodyProv, bodyCamp >>
  /\ load' = [load EXCEPT ![i].error = e, ![i].convRequests = load[i].convRequests + 1]

\* Lines 270-277: the catch of the conversions request.
CatchConvError(i, e) ==
  /\ metaText' = [metaText EXCEPT !.convErr = e]
  /\ tableCampShown' = FALSE
  /\ exportMeta' = MsgClicksOnly
  /\ UNCHANGED << AFFILIATE_EXPORT, tableProvShown, bodyProv, bodyCamp >>
  /\ load' = [load EXCEPT ![i].pc = "done", ![i].path = "partial", ![i].error = e,
                          ![i].convPending = FALSE]

\* The conversions request of invocation i is answered.
ConvResponse(i, resp) ==
  /\ load[i].pc = "conv"
  /\ LET r == fetchJSON(resp)
     IN IF r.ok THEN OnConvData(i, r.data) ELSE CatchConvError(i, r.error)
  /\ download' = Null
  /\ UNCHANGED << windowSelect, exportBtnDisabled, domReady, csvField, csvEscaped, fetchVars,
                  formVars, abVars >>

\* -------------------------------------------------------------- the export

\* Lines 456-486: the click on #export-btn. The button is disabled and
\* enabled again within the run.
downloadCsv ==
  LET csv == buildCsvFromExport(AFFILIATE_EXPORT)
  IN /\ domReady
     /\ IF Falsy(csv)
        THEN /\ exportMeta' = MsgNoExport
             /\ download' = Null
        ELSE /\ exportMeta' = MsgDownloaded
             /\ download' = csv
     /\ exportBtnDisabled' = FALSE
     /\ UNCHANGED << windowSelect, load, AFFILIATE_EXPORT, metaText, tableProvShown, bodyProv,
                     tableCampShown, bodyCamp, domReady, csvField, csvEscaped, fetchVars,
                  formVars, abVars >>

\* ------------------------------------------------------------ the triggers

\* Lines 490-512: DOMContentLoaded wires the controls and calls loadClicks.
DOMContentLoaded ==
  /\ ~domReady
  /\ domReady' = TRUE
  /\ loadClicks(NextSlot, windowSelect)
  /\ download' = Null
  /\ UNCHANGED << windowSelect, exportBtnDisabled, csvField, csvEscaped, fetchVars,
                  formVars, abVars >>

\* Lines 503-507: the click on #refresh-btn.
RefreshClick ==
  /\ domReady
  /\ InFlight # Loads
  /\ loadClicks(NextSlot, windowSelect)
  /\ download' = Null
  /\ UNCHANGED << windowSelect, exportBtnDisabled, domReady, csvField, csvEscaped, fetchVars,
                  formVars, abVars >>

\* Lines 498-502: the user picks another window; the handler reads it.
WindowChange(v) ==
  /\ domReady
  /\ InFlight # Loads
  /\ v # windowSelect
  /\ windowSelect' = v
  /\ loadClicks(NextSlot, v)
  /\ download' = Null
  /\ UNCHANGED << exportBtnDisabled, domReady, csvField, csvEscaped, fetchVars,
                  formVars, abVars >>

\* ------------------------------------------------------- the specification

\* Loads one at a time: a trigger fires when the load before it has settled.
Next ==
  \/ DOMContentLoaded
  \/ (Quiescent /\ RefreshClick)
  \/ \E v \in SelectValues : (Quiescent /\ WindowChange(v))
  \/ \E i \in Loads, resp \in ClickResponses : ClickResponse(i, resp)
  \/ \E i \in Loads, resp \in ConvResponses : ConvResponse(i, resp)
  \/ downloadCsv

Spec == Init /\ [][Next]_vars

\* ------------------------------------------------------ overlapping loads

\* The answers tried when loads overlap: the click summaries with a window,
\* whose campaigns are "none" alone, CFP-ROSE-2025 alone or "none" and the
\* unknown id, each with the largest count; the conversions summaries with a
\* window that name at most one campaign; the failure with status 500.
OverlapClickSummaries ==
  { c \in ClickSummaries :
      /\ c.window.start_ts # Null
      /\ DOMAIN c.by_campaign \in { {NONE}, {ROSE}, {NONE, ODD} }
      /\ \A cid \in DOMAIN c.by_campaign : c.by_campaign[cid] = MaxClicks }

OverlapConvSummaries ==
  { cv \in ConvSummaries :
      /\ cv.window.start_date # Null
      /\ Len(cv.campaigns) <= 1
      /\ \A k \in 1..Len(cv.campaigns) : cv.campaigns[k].campaign_id # NONE }

OverlapClickResponses ==
  { r \in ClickResponses : r.status = 500 \/ (r.status = 200 /\ r.json \in OverlapClickSummaries) }

OverlapConvResponses ==
  { r \in ConvResponses : r.status = 500 \/ (r.status = 200 /\ r.json \in OverlapConvSummaries) }

\* Nothing in the page holds a trigger back while a load is under way: up to
\* NumLoads invocations run at once, their responses arriving in any order.
NextOverlap ==
  \/ DOMContentLoaded
  \/ RefreshClick
  \/ \E v \in SelectValues : WindowChange(v)
  \/ \E i \in Loads, resp \in OverlapClickResponses : ClickResponse(i, resp)
  \/ \E i \in Loads, resp \in OverlapConvResponses : ConvResponse(i, resp)
  \/ downloadCsv

SpecOverlap == Init /\ [][NextOverlap]_vars

\* ------------------------------------------------- js/index.js: the games

\* The registry of games the bracket page shows.
CFP_GAMES ==
  <<
    [key |-> <<"rose-2025">>,
     bowl |-> Str(<<"Rose Bowl Semifinal">>),
     date |-> <<"Jan 1, 2025 · Pasadena, CA">>,
     time |-> <<"5:00 PM ET">>,
     eventName |-> Str(<<"R", "o", "s", "e", " ", "B", "o", "w", "l", " ", "C", "F", "P", " ",
           "S", "e", "m", "i", "f", "i", "n", "a", "l", " ", MIDDOT, " ", "T",
           "e", "a", "m", " ", "1", " ", "v", "s", " ", "T", "e", "a", "m", " ",
           "4">>),
     campaignId |-> <<"C", "F", "P", "-", "R", "O", "S", "E", "-", "2", "0", "2", "5">>,
     groupSize |-> Whole(4),
     maxRows |-> Whole(2)],
    [key |-> <<"sugar-2025">>,
     bowl |-> Str(<<"Sugar Bowl Semifinal">>),
     date |-> <<"Jan 1, 2025 · New Orleans, LA">>,
     time |-> <<"8:45 PM ET">>,
     eventName |-> Str(<<"S", "u", "g", "a", "r", " ", "B", "o", "w", "l", " ", "C", "F", "P",
           " ", "S", "e", "m", "i", "f", "i", "n", "a", "l", " ", MIDDOT, " ",
           "T", "e", "a", "m", " ", "2", " ", "v", "s", " ", "T", "e", "a", "m",
           " ", "3">>),
     campaignId |-> <<"C", "F", "P", "-", "S", "U", "G", "A", "R", "-", "2", "0", "2", "5">>,
     groupSize |-> Whole(4),
     maxRows |-> Whole(2)],
    [key |-> <<"title-2025">>,
     bowl |-> Str(<<"CFP National Championship">>),
     date |-> <<"Jan 13, 2025 · Atlanta, GA">>,
     time |-> <<"7:30 PM ET">>,
     eventName |-> Str(<<"C", "o", "l", "l", "e", "g", "e", " ", "F", "o", "o", "t", "b", "a",
           "l", "l", " ", "P", "l", "a", "y", "o", "f", "f", " ", "N", "a", "t",
           "i", "o", "n", "a", "l", " ", "C", "h", "a", "m", "p", "i", "o", "n",
           "s", "h", "i", "p">>),
     campaignId |-> <<"C", "F", "P", "-", "T", "I", "T", "L", "E", "-", "2", "0", "2", "5">>,
     groupSize |-> Whole(4),
     maxRows |-> Whole(2)]
  >>

\* The keys of the games, and one that is no game's.
GameKeys == { CFP_GAMES[k].key : k \in 1..Len(CFP_GAMES) } \cup { <<"orange-2025">> }

\* CFP_GAMES.find((g) => g.key === gameKey): the first game of that key.
FindGame(gameKey) ==
  IF \E k \in 1..Len(CFP_GAMES) : CFP_GAMES[k].key = gameKey
  THEN CFP_GAMES[CHOOSE k \in 1..Len(CFP_GAMES) :
                   /\ CFP_GAMES[k].key = gameKey
                   /\ \A j \in 1..(k - 1) : CFP_GAMES[j].key # gameKey]
  ELSE Null

\* openTicketsForGame(gameKey): what it sets window.location.href to, Null
\* when it returns without setting it.
openTicketsForGame(gameKey) ==
  LET game == FindGame(gameKey)
  IN IF game = Null THEN Null
     ELSE LET p0 == NewParams
              p1 == ParamsSet(p0, P_EVENT_NAME, game.eventName.s)
              p2 == ParamsSet(p1, P_CAMPAIGN_ID, game.campaignId)
              p3 == IF ~Falsy(game.groupSize)
                    THEN ParamsSet(p2, P_GROUP_SIZE, String(game.groupSize)) ELSE p2
              p4 == IF ~Falsy(game.maxRows)
                    THEN ParamsSet(p3, P_MAX_ROWS, String(game.maxRows)) ELSE p3
          IN Str(TICKETS_PAGE \o ParamsToString(p4))

\* --------------------------------------- the export of a given snapshot

\* The largest click count of a row handed to the export.
MaxRowClicks == 10

\* Snapshots of one row for CFP-ROSE-2025 with 2 conversions in USD: any
\* click count, with or without game label, revenue and revenue per click.
GivenRows ==
  { [campaign_id |-> ROSE, game_label |-> g, clicks |-> Whole(c), conversions |-> Whole(2),
     revenue |-> rev, currency |-> Str(<<"USD">>), revenue_per_click |-> rpc] :
    g \in {Null, CAMPAIGN_META(ROSE).gameLabel}, c \in 0..MaxRowClicks,
    rev \in {Null, Num(5000)}, rpc \in {Null, Whole(5)} }

GivenSnapshots ==
  { [byCampaign |-> <<r>>,
     meta |-> [EmptyMeta EXCEPT !.generated_at = Str(IsoNow), !.conv_window_days = Whole(30)]] :
    r \in GivenRows }

GivenInit ==
  /\ windowSelect = 0
  /\ load = [i \in Loads |-> IdleLoad]
  /\ AFFILIATE_EXPORT \in GivenSnapshots
  /\ metaText = MetaText("initial", 0, Null, Null, NoWindow, <<>>)
  /\ exportMeta = MsgReady
  /\ tableProvShown = FALSE
  /\ bodyProv = <<>>
  /\ tableCampShown = FALSE
  /\ bodyCamp = <<>>
  /\ exportBtnDisabled = FALSE
  /\ download = Null
  /\ domReady = TRUE
  /\ csvField = Null
  /\ csvEscaped = [pending |-> TRUE, text |-> <<>>]
  /\ fetchResponse = NoResponse
  /\ fetchOutcome = NoOutcome
  /\ FormsIdle
  /\ NoVariantYet

\* The export click on the snapshot given.
GivenNext == downloadCsv

SpecGivenSnapshot == GivenInit /\ [][GivenNext]_vars

\* ------------------------------------------------ fetchJSON on its own

\* Statuses on both sides of the 2xx range.
FetchStatuses == {199, 200, 204, 299, 300, 304, 404, 500}

\* Bodies: none that parses, a click summary, a conversions summary.
FetchBodies == {Null} \cup OverlapClickSummaries \cup OverlapConvSummaries

FetchResponses ==
  { NoResponse } \cup
  { [net |-> FALSE, status |-> s, json |-> b, text |-> x] :
    s \in FetchStatuses, b \in FetchBodies, x \in FailureTexts \cup { <<>> } }

FetchInit ==
  /\ PageInit
  /\ csvField = Null
  /\ csvEscaped = [pending |-> TRUE, text |-> <<>>]
  /\ fetchResponse \in FetchResponses
  /\ fetchOutcome = NoOutcome
  /\ FormsIdle
  /\ NoVariantYet

\* One call of fetchJSON.
FetchStep ==
  /\ fetchOutcome.pending
  /\ LET r == fetchJSON(fetchResponse)
     IN fetchOutcome' = [pending |-> FALSE, ok |-> r.ok, data |-> r.data, error |-> r.error]
  /\ UNCHANGED fetchResponse
  /\ UNCHANGED pageVars
  /\ UNCHANGED fieldVars
  /\ UNCHANGED << formVars, abVars >>

FetchNext == FetchStep

SpecFetchJSON == FetchInit /\ [][FetchNext]_vars

\* ------------------------------------------ escapeCsvField on its own

\* The longest field text tried.
MaxFieldLen == 3
FieldAlphabet == {"a", COMMA, QUOTE, LF, CR}
FieldTexts == UNION { [1..n -> FieldAlphabet] : n \in 0..MaxFieldLen }
\* What a row or the metadata can hand to escapeCsvField: nothing, a number,
\* a string.
FieldValues == {Null, Whole(0), Num(1250)} \cup { Str(s) : s \in FieldTexts }

FieldInit ==
  /\ PageInit
  /\ csvField \in FieldValues
  /\ csvEscaped = [pending |-> TRUE, text |-> <<>>]
  /\ fetchResponse = NoResponse
  /\ fetchOutcome = NoOutcome
  /\ FormsIdle
  /\ NoVariantYet

\* One call of escapeCsvField.
EscapeField ==
  /\ csvEscaped.pending
  /\ csvEscaped' = [pending |-> FALSE, text |-> escapeCsvField(csvField)]
  /\ UNCHANGED csvField
  /\ UNCHANGED pageVars
  /\ UNCHANGED fetchVars
  /\ UNCHANGED << formVars, abVars >>

FieldNext == EscapeField

SpecCsvField == FieldInit /\ [][FieldNext]_vars

\* ----------------------------------- js/tickets.js: the tickets search form

\* String.prototype.trim: the text without the white space at its ends.
IsSpace(c) == c \in {" ", "\t", LF, CR}
RECURSIVE TrimStart(_)
TrimStart(s) == IF s # <<>> /\ IsSpace(Head(s)) THEN TrimStart(Tail(s)) ELSE s
RECURSIVE TrimEnd(_)
TrimEnd(s) == IF s # <<>> /\ IsSpace(s[Len(s)]) THEN TrimEnd(SubSeq(s, 1, Len(s) - 1)) ELSE s
Trim(s) == TrimEnd(TrimStart(s))

\* Number(text) of a text of digits.
NumberOfDigits(s) == Whole(ParseDigits(s, 0))

API_BASE == <<"https://scw-api.onrender.com">>
SEARCH_PATH == <<"/v1/tickets/search">>

\* Lines 344-349: the params of a search, a key left out being Null.
SearchParams(eventName, groupSize, maxRows, campaignId) ==
  [event_name |-> Str(eventName),
   group_size |-> IF groupSize # <<>> THEN NumberOfDigits(groupSize) ELSE Null,
   max_rows |-> IF maxRows # <<>> THEN NumberOfDigits(maxRows) ELSE Null,
   campaign_id |-> IF campaignId # <<>> THEN Str(campaignId) ELSE Null]

\* Lines 245-258 of fetchJSON: the request, its query the params that are
\* not undefined, null or "", each as String writes it, in the params' order.
SearchRequest(params) ==
  LET keep(v) == v # Null /\ v # Str(<<>>)
      q0 == NewParams
      q1 == IF keep(params.event_name)
            THEN ParamsSet(q0, P_EVENT_NAME, String(params.event_name)) ELSE q0
      q2 == IF keep(params.group_size)
            THEN ParamsSet(q1, P_GROUP_SIZE, String(params.group_size)) ELSE q1
      q3 == IF keep(params.max_rows)
            THEN ParamsSet(q2, P_MAX_ROWS, String(params.max_rows)) ELSE q2
      q4 == IF keep(params.campaign_id)
            THEN ParamsSet(q3, P_CAMPAIGN_ID, String(params.campaign_id)) ELSE q3
  IN [url |-> API_BASE \o SEARCH_PATH, query |-> ParamsToString(q4)]

\* Lines 255-265 of fetchJSON: what the awaited call ends with. A response
\* is [net, status, text, body]: net is FALSE when fetch itself rejects;
\* body.parses is FALSE when the body is no JSON text.
TicketsFetchJSON(resp) ==
  IF ~resp.net THEN
    [ok |-> FALSE, data |-> Null,
     err |-> [name |-> <<"TypeError">>, message |-> <<"Failed to fetch">>]]
  ELSE IF resp.status \notin 200..299 THEN
    [ok |-> FALSE, data |-> Null,
     err |-> [name |-> <<"Error">>,
              message |-> <<"HTTP ">> \o Digits(resp.status) \o <<": ">> \o resp.text]]
  ELSE IF ~resp.body.parses THEN
    [ok |-> FALSE, data |-> Null,
     err |-> [name |-> <<"SyntaxError">>, message |-> <<"Unexpected token">>]]
  ELSE [ok |-> TRUE, data |-> resp.body.value, err |-> [name |-> <<>>, message |-> <<>>]]

\* What reading a property of null throws.
NullReadError == [name |-> <<"TypeError">>, message |-> <<"Cannot read properties of null">>]

\* Line 383: err.message || String(err)
ErrorText(err) ==
  IF err.message # <<>> THEN err.message
  ELSE IF err.name # <<>> THEN err.name ELSE <<"Error">>

\* Lines 279-318: the card of one link.
buildProviderCard(link) ==
  [name |-> IF link.provider = Str(<<"seatGeek">>) THEN <<"SeatGeek">> ELSE <<"StubHub">>,
   meta |-> IF link.role = Str(<<"primary">>) THEN <<"Primary for this request">>
            ELSE <<"Secondary (still available)">>,
   mainHref |-> API_BASE \o link.click_url,
   rawHref |-> link.direct_url]

\* Lines 353-380: #results-card rendered from the data of a search.
RenderedResults(data) ==
  LET primaryProvider == Or(data.primary_provider, Str(<<"seatGeek">>))
      campaignText == IF ~Falsy(data.campaign_id)
                      THEN <<" ", MIDDOT, " campaign: ">> \o String(data.campaign_id) ELSE <<>>
      mode == IF data.split = Null THEN <<"auto">> ELSE String(Or(data.split.mode, Str(<<"auto">>)))
      percent == IF data.split = Null THEN <<"?">>
                 ELSE String(Coalesce(data.split.seatGeek_percent, Str(<<"?">>)))
      links == Or(data.links, List(<<>>)).s
  IN [shown |-> TRUE,
      rawJson |-> [json |-> data],
      pill |-> <<"Primary: ">> \o
               (IF primaryProvider = Str(<<"seatGeek">>) THEN <<"SeatGeek">> ELSE <<"StubHub">>),
      pillClass |-> <<"pill primary">>,
      meta |-> <<"Mode: ">> \o mode \o <<" ", MIDDOT, " SeatGeek primary share: ">> \o percent
               \o <<"%">> \o campaignText,
      grid |-> [k \in 1..Len(links) |-> buildProviderCard(links[k])]]

\* The values the form's fields hold at a submit: the event name empty,
\* blank, or a name with white space around it; the others empty or set.
TicketFields ==
  [eventName : { <<>>, <<" ", "\t">>, <<" ", "R", "o", "s", "e", " ">> },
   groupSize : { <<>>, <<"4", " ">> },
   maxRows : { <<>>, <<"2">> },
   campaignId : { <<>>, ROSE }]

\* The data a search answers with: null, an object with nothing in it, an
\* object with everything.
TicketLink ==
  [provider |-> Str(<<"stubHub">>), role |-> Str(<<"primary">>),
   click_url |-> <<"/v1/tickets/click/1">>, direct_url |-> <<"https://www.stubhub.com/find/">>]
TicketData ==
  { Null,
    [primary_provider |-> Null, campaign_id |-> Null, split |-> Null, links |-> Null],
    [primary_provider |-> Str(<<"stubHub">>), campaign_id |-> Str(ROSE),
     split |-> [mode |-> Str(<<"manual">>), seatGeek_percent |-> Whole(70)],
     links |-> List(<<TicketLink>>)] }

\* The responses of the search request: fetch rejecting, a status that is
\* not ok, a body that is no JSON, a body that is.
TicketResponses ==
  { [net |-> FALSE, status |-> 0, text |-> <<>>, body |-> [parses |-> FALSE, value |-> Null]],
    [net |-> TRUE, status |-> 500, text |-> <<"boom">>, body |-> [parses |-> FALSE, value |-> Null]],
    [net |-> TRUE, status |-> 200, text |-> <<>>, body |-> [parses |-> FALSE, value |-> Null]] }
  \cup { [net |-> TRUE, status |-> 200, text |-> <<>>, body |-> [parses |-> TRUE, value |-> d]] :
           d \in TicketData }

\* The catch of handleSubmit with its finally left out: the error shown,
\* the button as it is.
CatchSearchError_NoFinally(err) ==
  /\ formError' = [shown |-> TRUE, text |-> ErrorText(err)]
  /\ submitBtn' = submitBtn
  /\ ticketsRun' = [pc |-> "idle", params |-> NoParams, last |-> "failed"]

\* Lines 381-387: the catch of handleSubmit and its finally.
CatchSearchError(err) ==
  /\ formError' = [shown |-> TRUE, text |-> ErrorText(err)]
  /\ submitBtn' = [disabled |-> FALSE, text |-> LabelSearch]
  /\ ticketsRun' = [pc |-> "idle", params |-> NoParams, last |-> "failed"]

\* Lines 320-351: the submit of #tickets-form, up to the request. A form
\* whose submit button is disabled is not submitted, so no run starts while
\* one is waiting.
handleSubmit(fields) ==
  LET eventName == Trim(fields.eventName)
      groupSize == Trim(fields.groupSize)
      maxRows == fields.maxRows
      campaignId == Trim(fields.campaignId)
  IN /\ ~submitBtn.disabled
     /\ ticketsRun.pc = "idle"
     /\ IF eventName = <<>>
        THEN /\ formError' = [shown |-> TRUE, text |-> MsgEnterEventName]
             /\ ticketsRun' = [pc |-> "idle", params |-> NoParams, last |-> "invalid"]
             /\ UNCHANGED submitBtn
        ELSE /\ formError' = [shown |-> FALSE, text |-> <<>>]
             /\ submitBtn' = [disabled |-> TRUE, text |-> LabelSearching]
             /\ ticketsRun' =
                  [pc |-> "search",
                   params |-> SearchRequest(SearchParams(eventName, groupSize, maxRows, campaignId)),
                   last |-> "none"]
     /\ UNCHANGED resultsCard
     /\ UNCHANGED << cfpSubmit, resultsBox, cfpRun >>
     /\ UNCHANGED << pageVars, fieldVars, fetchVars, abVars >>

\* Lines 351-387: the answer of the search request, up to the return.
SearchResponse(resp) ==
  LET r == TicketsFetchJSON(resp)
  IN /\ ticketsRun.pc = "search"
     /\ IF ~r.ok
        THEN CatchSearchError(r.err) /\ UNCHANGED resultsCard
        ELSE IF r.data = Null
        THEN /\ resultsCard' = [resultsCard EXCEPT !.rawJson = [json |-> r.data]]
             /\ CatchSearchError(NullReadError)
        ELSE /\ resultsCard' = RenderedResults(r.data)
             /\ submitBtn' = [disabled |-> FALSE, text |-> LabelSearch]
             /\ ticketsRun' = [pc |-> "idle", params |-> NoParams, last |-> "ok"]
             /\ UNCHANGED formError
     /\ UNCHANGED << cfpSubmit, resultsBox, cfpRun >>
     /\ UNCHANGED << pageVars, fieldVars, fetchVars, abVars >>

\* Lines 268-277: the click on #reset-btn (the fields it empties are read at
\* the next submit).
resetForm ==
  /\ formError' = [shown |-> FALSE, text |-> <<>>]
  /\ resultsCard' = [resultsCard EXCEPT !.shown = FALSE, !.rawJson = [text |-> MsgAwaiting]]
  /\ UNCHANGED << submitBtn, ticketsRun, cfpSubmit, resultsBox, cfpRun >>
  /\ UNCHANGED << pageVars, fieldVars, fetchVars, abVars >>

\* ------------------------- js/seatgeek.js, js/stubhub.js: the #cfp-form pages

\* getExperimentId() of app.js: the id of the visitor's experiment.
getExperimentId == Str(<<"exp-1">>)

\* searchTickets(params) of app.js: a request that settles, with a result
\* or with an error. The results tried: none (undefined), one without its
\* links, one with a primary SeatGeek link and a StubHub one.
CfpLinks ==
  << [url |-> <<"https://seatgeek.com/e/1">>, label |-> <<"SeatGeek">>,
      experiment_bucket |-> Str(<<"primary">>), provider |-> Str(<<"seatGeek">>)],
     [url |-> <<"https://www.stubhub.com/e/1">>, label |-> <<"StubHub">>,
      experiment_bucket |-> Str(<<"secondary">>), provider |-> Str(<<"stubHub">>)] >>
CfpResults ==
  { Null,
    [provider |-> Str(<<"seatGeek">>), experiment_bucket |-> Str(<<"A">>),
     group_size |-> Whole(2), max_rows |-> Whole(1), links |-> Null],
    [provider |-> Str(<<"seatGeek">>), experiment_bucket |-> Str(<<"A">>),
     group_size |-> Whole(2), max_rows |-> Whole(1), links |-> List(CfpLinks)] }
searchTickets ==
  { [ok |-> TRUE, res |-> r, err |-> <<>>] : r \in CfpResults }
  \cup { [ok |-> FALSE, res |-> Null, err |-> <<"Error: boom">>] }

\* What FormData gives for the form's fields at a submit: a field's text,
\* or Null for a field the form does not have.
CfpFields ==
  [event_name : { Null, Str(<<"R", "o", "s", "e">>) },
   location : { Null },
   date : { Null },
   group_size : { Null, Str(<<"4">>) },
   max_rows : { Null }]
\* #provider: missing from the page (Null), or its value.
ProviderValues == { Null, Str(<<"seatGeek">>) }

\* seatgeek.js lines 19-27: the params of the search.
SeatgeekParams(data, providerField) ==
  [event_name |-> Or(data.event_name, Str(<<>>)),
   location |-> Or(data.location, Str(<<>>)),
   date |-> Or(data.date, Str(<<>>)),
   group_size |-> NumberOfDigits(Or(data.group_size, Str(<<"2">>)).s),
   max_rows |-> NumberOfDigits(Or(data.max_rows, Str(<<"1">>)).s),
   provider |-> IF providerField # Null THEN providerField ELSE Str(<<"auto">>),
   experiment_id |-> getExperimentId]

\* stubhub.js lines 18-26: the params of the search.
StubhubParams(data) ==
  [event_name |-> Or(data.event_name, Str(<<>>)),
   location |-> Or(data.location, Str(<<>>)),
   date |-> Or(data.date, Str(<<>>)),
   group_size |-> NumberOfDigits(Or(data.group_size, Str(<<"2">>)).s),
   max_rows |-> NumberOfDigits(Or(data.max_rows, Str(<<"1">>)).s),
   provider |-> Str(<<"stubHub">>),
   experiment_id |-> getExperimentId]

\* The two lines both pages show above the links.
GroupLine(res) ==
  <<"Group of ">> \o String(res.group_size) \o <<" ok on up to ">> \o String(res.max_rows)
  \o <<" row(s).">>

\* seatgeek.js lines 42-76: renderResults, #results as it leaves it. It
\* throws, #results emptied, when there is no result or the result has no
\* links.
SeatgeekRenderResults(res) ==
  IF res = Null \/ res.links = Null THEN [kind |-> "empty"]
  ELSE [kind |-> "results",
        heading |-> <<"Primary provider: ">> \o
                    (IF res.provider = Str(<<"seatGeek">>) THEN <<"SeatGeek">> ELSE <<"StubHub">>)
                    \o <<" * Bucket: ">> \o String(res.experiment_bucket),
        group |-> GroupLine(res),
        list |-> [k \in 1..Len(res.links.s) |->
                    LET primary == res.links.s[k].experiment_bucket = Str(<<"primary">>)
                    IN [href |-> res.links.s[k].url,
                        class |-> IF primary THEN <<"cta primary">> ELSE <<"cta">>,
                        label |-> res.links.s[k].label,
                        meta |-> IF primary THEN <<"Suggested">> ELSE <<"Also compare">>]]]

\* stubhub.js lines 41-73: renderResults.
StubhubRenderResults(res) ==
  IF res = Null \/ res.links = Null THEN [kind |-> "empty"]
  ELSE [kind |-> "results",
        heading |-> <<"StubHub page * Backend bucket: ">> \o String(res.experiment_bucket),
        group |-> GroupLine(res),
        list |-> [k \in 1..Len(res.links.s) |->
                    LET primary == res.links.s[k].provider = Str(<<"stubHub">>)
                    IN [href |-> res.links.s[k].url,
                        class |-> IF primary THEN <<"cta primary">> ELSE <<"cta">>,
                        label |-> res.links.s[k].label,
                        meta |-> IF primary THEN <<"StubHub preferred">>
                                 ELSE <<"Compare on SeatGeek">>]]]

\* Lines 12-30 of either handler: the submit of #cfp-form on page pg, up to
\* the search. A form whose submit button is disabled is not submitted.
CfpSubmit(pg, params) ==
  /\ ~cfpSubmit[pg]
  /\ cfpRun[pg].pc = "idle"
  /\ resultsBox' = [resultsBox EXCEPT ![pg] = [kind |-> "empty"]]
  /\ cfpSubmit' = [cfpSubmit EXCEPT ![pg] = TRUE]
  /\ cfpRun' = [cfpRun EXCEPT ![pg] = [pc |-> "search", params |-> params, last |-> "none"]]
  /\ UNCHANGED << submitBtn, formError, resultsCard, ticketsRun >>
  /\ UNCHANGED << pageVars, fieldVars, fetchVars, abVars >>

\* The end of the handler with its finally run on success only.
CfpSettled_NoFinally(pg, outcome, rendered) ==
  LET threw == ~outcome.ok \/ outcome.res = Null \/ outcome.res.links = Null
  IN /\ cfpRun[pg].pc = "search"
     /\ resultsBox' = [resultsBox EXCEPT ![pg] =
                         IF threw THEN [kind |-> "error", text |-> MsgWentWrong] ELSE rendered]
     /\ cfpSubmit' = [cfpSubmit EXCEPT ![pg] = threw]
     /\ cfpRun' = [cfpRun EXCEPT ![pg] = [pc |-> "idle", params |-> NoParams,
                                          last |-> IF threw THEN "failed" ELSE "ok"]]
     /\ UNCHANGED << submitBtn, formError, resultsCard, ticketsRun >>
     /\ UNCHANGED << pageVars, fieldVars, fetchVars, abVars >>

\* Lines 29-38 of either handler: the search settled, up to the return.
\* rendered is #results as the page's renderResults leaves it; an error,
\* the search's or one renderResults threw, puts the message there.
CfpSettled(pg, outcome, rendered) ==
  LET threw == ~outcome.ok \/ outcome.res = Null \/ outcome.res.links = Null
  IN /\ cfpRun[pg].pc = "search"
     /\ resultsBox' = [resultsBox EXCEPT ![pg] =
                         IF threw THEN [kind |-> "error", text |-> MsgWentWrong] ELSE rendered]
     /\ cfpSubmit' = [cfpSubmit EXCEPT ![pg] = FALSE]
     /\ cfpRun' = [cfpRun EXCEPT ![pg] = [pc |-> "idle", params |-> NoParams,
                                          last |-> IF threw THEN "failed" ELSE "ok"]]
     /\ UNCHANGED << submitBtn, formError, resultsCard, ticketsRun >>
     /\ UNCHANGED << pageVars, fieldVars, fetchVars, abVars >>

SeatgeekSubmit(data, providerField) == CfpSubmit("seatgeek", SeatgeekParams(data, providerField))
SeatgeekSettled(outcome) == CfpSettled("seatgeek", outcome, SeatgeekRenderResults(outcome.res))
StubhubSubmit(data) == CfpSubmit("stubhub", StubhubParams(data))
StubhubSettled(outcome) == CfpSettled("stubhub", outcome, StubhubRenderResults(outcome.res))

\* The three forms, each on its page, used in any order.
FormsInit ==
  /\ PageInit
  /\ windowSelect = 0
  /\ csvField = Null
  /\ csvEscaped = [pending |-> TRUE, text |-> <<>>]
  /\ fetchResponse = NoResponse
  /\ fetchOutcome = NoOutcome
  /\ FormsIdle
  /\ NoVariantYet

FormsNext ==
  \/ \E fields \in TicketFields : handleSubmit(fields)
  \/ \E resp \in TicketResponses : SearchResponse(resp)
  \/ resetForm
  \/ \E data \in CfpFields, providerField \in ProviderValues : SeatgeekSubmit(data, providerField)
  \/ \E outcome \in searchTickets : SeatgeekSettled(outcome)
  \/ \E data \in CfpFields : StubhubSubmit(data)
  \/ \E outcome \in searchTickets : StubhubSettled(outcome)

SpecForms == FormsInit /\ [][FormsNext]_vars

\* ----------------------------------------- the public pages: getABVariant

\* The two variants of the experiment.
VARIANT_A == Str(<<"A">>)
VARIANT_B == Str(<<"B">>)
Variants == {VARIANT_A, VARIANT_B}

\* What localStorage.getItem(AB_STORAGE_KEY) can hold: nothing (getItem
\* gives null), a variant, or a string that is neither, left by something
\* other than getABVariant.
StoredItems == {Null, VARIANT_A, VARIANT_B, Str(<<"C">>)}

\* What localStorage lets the page do: everything; nothing (getItem throws,
\* as where storage is denied to the page); reading only (setItem throws,
\* as where the quota is zero or used up).
StorageModes == {"open", "blocked", "readonly"}

\* Math.random() < 0.5 ? "A" : "B": either, whatever was drawn before.
RandomVariants == Variants

\* One call of getABVariant as the log keeps it: what it returned, whether
\* a storage access threw, whether it wrote the item, and what storage
\* allowed at the time.
CallOf(ret, threw, wrote) ==
  [op |-> "call", ret |-> ret, threw |-> threw, wrote |-> wrote, access |-> storageAccess]

\* A change of the item made by anything but getABVariant.
ModifiedElsewhere ==
  [op |-> "modified", ret |-> Null, threw |-> FALSE, wrote |-> FALSE, access |-> storageAccess]

\* getABVariant with its stored item ignored: every call draws and stores.
getABVariant_AssignsAnew(assigned, fallback) ==
  /\ Len(abCalls) < MaxCalls
  /\ IF storageAccess = "open"
        THEN /\ abStorage' = assigned
             /\ abCalls' = Append(abCalls, CallOf(assigned, FALSE, TRUE))
        ELSE /\ abStorage' = abStorage
             /\ abCalls' = Append(abCalls, CallOf(fallback, TRUE, FALSE))
  /\ UNCHANGED << storageAccess, pageVars, fieldVars, fetchVars, formVars >>

\* getABVariant(), which renderRankingsTable and renderTeamGames each call
\* once: assigned is the draw of line 9 and fallback the draw of the catch,
\* each used only on the path that makes it. getItem throws
\* where storage is blocked; setItem throws where it is blocked or read
\* only, and then the variant returned is the catch's, not the one that
\* was to be stored.
getABVariant(assigned, fallback) ==
  /\ Len(abCalls) < MaxCalls
  /\ IF storageAccess = "blocked"
        THEN /\ abStorage' = abStorage
             /\ abCalls' = Append(abCalls, CallOf(fallback, TRUE, FALSE))
        ELSE LET existing == abStorage
             IN  IF existing = VARIANT_A \/ existing = VARIANT_B
                   THEN /\ abStorage' = abStorage
                        /\ abCalls' = Append(abCalls, CallOf(existing, FALSE, FALSE))
                   ELSE IF storageAccess = "readonly"
                          THEN /\ abStorage' = abStorage
                               /\ abCalls' = Append(abCalls, CallOf(fallback, TRUE, FALSE))
                          ELSE /\ abStorage' = assigned
                               /\ abCalls' = Append(abCalls, CallOf(assigned, FALSE, TRUE))
  /\ UNCHANGED << storageAccess, pageVars, fieldVars, fetchVars, formVars >>

\* The visitor, the browser or another script removes the item or sets it.
StorageChanged(item) ==
  /\ Len(abCalls) < MaxCalls
  /\ item # abStorage
  /\ abStorage' = item
  /\ abCalls' = Append(abCalls, ModifiedElsewhere)
  /\ UNCHANGED << storageAccess, pageVars, fieldVars, fetchVars, formVars >>

\* The browser's settings change what storage allows.
AccessChanged(mode) ==
  /\ mode # storageAccess
  /\ storageAccess' = mode
  /\ UNCHANGED << abStorage, abCalls, pageVars, fieldVars, fetchVars, formVars >>

\* A visitor arrives with whatever an earlier visit left in storage.
VariantInit ==
  /\ PageInit
  /\ windowSelect = 0
  /\ csvField = Null
  /\ csvEscaped = [pending |-> TRUE, text |-> <<>>]
  /\ fetchResponse = NoResponse
  /\ fetchOutcome = NoOutcome
  /\ FormsIdle
  /\ abStorage \in StoredItems
  /\ storageAccess \in StorageModes
  /\ abCalls = <<>>

VariantNext ==
  \/ \E assigned \in RandomVariants, fallback \in RandomVariants :
       getABVariant(assigned, fallback)
  \/ \E item \in StoredItems : StorageChanged(item)
  \/ \E mode \in StorageModes : AccessChanged(mode)

SpecVariant == VariantInit /\ [][VariantNext]_vars

\* ===================================================================
\* The claims
\* ===================================================================

Rows == AFFILIATE_EXPORT.byCampaign
RowIds == { Rows[k].campaign_id : k \in 1..Len(Rows) }
RowsOf(cid) == { k \in 1..Len(Rows) : Rows[k].campaign_id = cid }

Settled(i, path) == load[i].pc = "done" /\ load[i].path = path
\* The click summary of invocation i has arrived.
ClicksArrived(i) ==
  load[i].pc = "conv" \/ (load[i].pc = "done" /\ load[i].path \in {"empty", "partial", "ok"})
ByCampaignOf(i) == load[i].clickData.by_campaign

\* C1: when the click request succeeded with a campaign other than "none"
\* and the conversions request failed, the snapshot holds one row per
\* campaign with its clicks, without conversions and revenue, and the
\* partial failure is flagged.
C1_DegradedSnapshot ==
  \A i \in Loads :
    Settled(i, "partial") =>
      /\ RowIds = DOMAIN ByCampaignOf(i)
      /\ Len(Rows) = Cardinality(DOMAIN ByCampaignOf(i))
      /\ \A k \in 1..Len(Rows) :
           /\ Rows[k].clicks = Whole(ByCampaignOf(i)[Rows[k].campaign_id])
           /\ Rows[k].conversions = Null
           /\ Rows[k].revenue = Null
      /\ metaText.convErr # <<>>

\* C2: a click summary with no campaign but "none" ends the load with no
\* rows and without a conversions request.
C2_NoCampaignNoRequest ==
  \A i \in Loads :
    (ClicksArrived(i) /\ DOMAIN ByCampaignOf(i) \subseteq {NONE}) =>
      /\ Settled(i, "empty")
      /\ load[i].convReq = NoConvReq
      /\ Rows = <<>>

C2_Witness ==
  \E i \in Loads :
    /\ Settled(i, "empty")
    /\ DOMAIN ByCampaignOf(i) = {NONE}
    /\ ByCampaignOf(i)[NONE] > 0

C4_OneRowPerClickedCampaign ==
  \A i \in Loads :
    (load[i].pc = "done" /\ load[i].path \in {"empty", "partial", "ok"}) =>
      /\ \A cid \in DOMAIN ByCampaignOf(i) :
           (cid # NONE /\ ByCampaignOf(i)[cid] > 0) => Cardinality(RowsOf(cid)) = 1
      /\ RowIds \subseteq DOMAIN ByCampaignOf(i)

\* C5: a row has a revenue per click if and only if its clicks are above 0
\* and its revenue is not null.
C5_RpcPresence ==
  \A i \in Loads :
    Settled(i, "ok") =>
      \A k \in 1..Len(Rows) :
        (Rows[k].revenue_per_click # Null) <=>
          (ByCampaignOf(i)[Rows[k].campaign_id] > 0 /\ Rows[k].revenue # Null)

C5_Witness ==
  \E i \in Loads :
    /\ Settled(i, "ok")
    /\ \E k \in 1..Len(Rows) :
         /\ Rows[k].clicks = Whole(0)
         /\ Rows[k].revenue # Null
         /\ Rows[k].revenue_per_click = Null
    /\ \E k \in 1..Len(Rows) :
         /\ Rows[k].clicks # Whole(0)
         /\ Rows[k].revenue = Num(0)
         /\ Rows[k].revenue_per_click = Num(0)
    /\ \E k \in 1..Len(Rows) :
         /\ Rows[k].clicks # Whole(0)
         /\ Rows[k].revenue = Null
         /\ Rows[k].revenue_per_click = Null

\* A reader of CSV text: records end at a line feed outside quotes, fields
\* at a comma outside quotes, and a doubled quote inside quotes is a quote.
\* A position is outside quotes when an even number of quotes precede it.
QuotesBefore(s, p) == Cardinality({ j \in 1..(p - 1) : s[j] = QUOTE })
Breaks(s, sep) ==
  LET Q == { j \in 1..Len(s) : s[j] = QUOTE }
  IN { p \in 1..Len(s) : s[p] = sep /\ Cardinality({ q \in Q : q < p }) % 2 = 0 }
\* The k-th smallest member of a set of positions.
Nth(P, k) == CHOOSE p \in P : Cardinality({ q \in P : q < p }) = k - 1

\* The parts of s between its separators outside quotes.
SplitOutside(s, sep) ==
  LET B == Breaks(s, sep)
      n == Cardinality(B)
  IN [k \in 1..(n + 1) |->
        SubSeq(s, IF k = 1 THEN 1 ELSE Nth(B, k - 1) + 1,
                  IF k = n + 1 THEN Len(s) ELSE Nth(B, k) - 1)]

\* A field without its quoting: what is between the outer quotes, each
\* doubled quote once.
Unescaped(f) ==
  IF f = <<>> \/ f[1] # QUOTE THEN f
  ELSE LET inner == SubSeq(f, 2, Len(f) - 1)
           K == { j \in 1..Len(inner) :
                    inner[j] # QUOTE \/ QuotesBefore(inner, j + 1) % 2 = 1 }
       IN [k \in 1..Cardinality(K) |-> inner[Nth(K, k)]]

ParseCsv(s) ==
  LET recs == SplitOutside(s, LF)
  IN [r \in 1..Len(recs) |->
        LET flds == SplitOutside(recs[r], COMMA)
        IN [c \in 1..Len(flds) |-> Unescaped(flds[c])]]

\* The text of a value, nothing for an absent one.
TextOf(v) == IF v = Null THEN <<>> ELSE String(v)
\* The text of a metadata value as the export writes it: nothing for an
\* absent one, for 0 and for the empty string.
MetaTextOf(v) == IF Falsy(v) THEN <<>> ELSE String(v)

Csv == buildCsvFromExport(AFFILIATE_EXPORT)

\* C6: with no rows buildCsvFromExport returns null, never a text of the
\* header alone, and the export click then downloads nothing and leaves its
\* message.
C6_EmptyExportIsNull ==
  /\ Rows = <<>> => (Csv = Null /\ download = Null /\ exportMeta # MsgDownloaded)
  /\ Csv # Null => Len(ParseCsv(Csv.s)) > 1
  /\ exportMeta = MsgNoExport => (Rows = <<>> /\ download = Null)

C6_Witness ==
  /\ exportMeta = MsgNoExport
  /\ Rows = <<>>
  /\ download = Null
  /\ \E i \in Loads : Settled(i, "empty")

\* C7: escapeCsvField wraps a field in quotes, doubling the quotes in it, if
\* and only if its text has a comma, a quote, a line feed or a carriage
\* return in it, and returns it unchanged otherwise.
C7_QuotedIffSpecial ==
  (~csvEscaped.pending /\ csvField.t = "str") =>
    LET s == csvField.s
    IN IF \E k \in 1..Len(s) : s[k] \in {COMMA, QUOTE, LF, CR}
       THEN csvEscaped.text = <<QUOTE>> \o DoubleQuotes(s) \o <<QUOTE>>
       ELSE csvEscaped.text = s

C8_Columns ==
  << <<"campaign_id">>, <<"game_label">>, <<"clicks">>, <<"conversions">>, <<"revenue">>,
     <<"currency">>, <<"revenue_per_click">>, <<"generated_at">>,
     <<"click_window_start_ts">>, <<"click_window_end_ts">>, <<"conv_window_days">>,
     <<"conv_window_start_date">>, <<"conv_window_end_date">> >>

C8_Record(r, meta) ==
  << r.campaign_id, TextOf(r.game_label), TextOf(r.clicks), TextOf(r.conversions),
     TextOf(r.revenue), TextOf(r.currency), TextOf(r.revenue_per_click),
     MetaTextOf(meta.generated_at), MetaTextOf(meta.click_window.start_ts),
     MetaTextOf(meta.click_window.end_ts), MetaTextOf(meta.conv_window_days),
     MetaTextOf(meta.conv_window.start_date), MetaTextOf(meta.conv_window.end_date) >>

\* C8: for n >= 1 rows the text reads as n + 1 records, the header and then
\* one record per row in the snapshot's order, each of the thirteen columns
\* in the fixed order.
C8_HeaderAndOneLinePerRow ==
  Len(Rows) >= 1 =>
    /\ Csv # Null
    /\ LET recs == ParseCsv(Csv.s)
       IN /\ Len(recs) = Len(Rows) + 1
          /\ recs[1] = C8_Columns
          /\ \A k \in 1..Len(Rows) : recs[k + 1] = C8_Record(Rows[k], AFFILIATE_EXPORT.meta)

C8_Witness ==
  /\ download # Null
  /\ download = Csv
  /\ Len(Rows) = 3
  /\ Rows[2].campaign_id = ODD

\* The values of a row's line before the export touches them: the row's
\* seven and the metadata's six.
C9_RawValues(r, meta) ==
  << Str(r.campaign_id), r.game_label, r.clicks, r.conversions, r.revenue, r.currency,
     r.revenue_per_click, meta.generated_at, meta.click_window.start_ts,
     meta.click_window.end_ts, meta.conv_window_days, meta.conv_window.start_date,
     meta.conv_window.end_date >>

\* C9, as claimed: every absent value of a row or of the metadata is written
\* as the empty string, every present one, a 0 too, as its text.
C9_AbsentEmptyPresentText ==
  \A k \in 1..Len(Rows) :
    LET raw == C9_RawValues(Rows[k], AFFILIATE_EXPORT.meta)
        out == CsvLineFields(Rows[k], AFFILIATE_EXPORT.meta)
    IN \A c \in 1..13 :
         IF raw[c] = Null THEN out[c] = <<>> ELSE Unescaped(out[c]) = String(raw[c])

\* C9, amended: every absent value is written as the empty string, never as
\* "null" or the dash; a present value of the row, a 0 too, is written as
\* its text; a present value of the metadata is written as its text unless
\* it is 0 or the empty string, which are written as the empty string.
C9_AbsentEmptyRowText ==
  \A k \in 1..Len(Rows) :
    LET raw == C9_RawValues(Rows[k], AFFILIATE_EXPORT.meta)
        out == CsvLineFields(Rows[k], AFFILIATE_EXPORT.meta)
    IN \A c \in 1..13 :
         IF raw[c] = Null THEN out[c] = <<>> /\ out[c] # <<"null">> /\ out[c] # <<EMDASH>>
         ELSE IF c <= 7 THEN Unescaped(out[c]) = String(raw[c])
         ELSE IF Falsy(raw[c]) THEN out[c] = <<>>
         ELSE Unescaped(out[c]) = String(raw[c])

C9_Witness ==
  /\ download # Null
  /\ AFFILIATE_EXPORT.meta.click_window.start_ts = Whole(0)
  /\ AFFILIATE_EXPORT.meta.conv_window.start_date = Null
  /\ \E k \in 1..Len(Rows) :
       /\ Rows[k].game_label = Null
       /\ Rows[k].clicks = Whole(0)
       /\ Rows[k].revenue = Null
       /\ Rows[k].revenue_per_click = Null

C10_RawErrors ==
  { <<"TypeError: Failed to fetch">>,
    <<"Error: HTTP ", "4", "0", "4", ": ", "boom">>,
    <<"Error: HTTP ", "5", "0", "0", ": ", "boom">> }

\* C10: a failed click request ends the load: no conversions request, the
\* snapshot empty so that the export returns null, the error's text shown.
C10_ClickFailureAborts ==
  \A i \in Loads :
    Settled(i, "fatal") =>
      /\ load[i].convReq = NoConvReq
      /\ Rows = <<>>
      /\ Csv = Null
      /\ tableCampShown = FALSE
      /\ metaText.kind = "error"
      /\ metaText.err = load[i].error
      /\ metaText.err \in C10_RawErrors

C10_Witness ==
  \E i \in Loads :
    /\ Settled(i, "fatal")
    /\ metaText.err = <<"Error: HTTP ", "5", "0", "0", ": ", "boom">>
    /\ exportMeta = MsgLoadError

\* C11: the rows of a snapshot are in ascending order of their campaign ids,
\* as sort() orders strings, so that no id occurs twice, and the records of
\* the export follow in that same order.
C11_RowsSortedExportInOrder ==
  /\ \A k \in 1..Len(Rows) : \A l \in (k + 1)..Len(Rows) :
       StrLess(Rows[k].campaign_id, Rows[l].campaign_id)
  /\ Csv # Null =>
       LET recs == ParseCsv(Csv.s)
       IN /\ Len(recs) = Len(Rows) + 1
          /\ \A k \in 1..Len(Rows) : recs[k + 1][1] = Rows[k].campaign_id

C11_Witness ==
  /\ download # Null
  /\ download = Csv
  /\ Len(Rows) = 3
  /\ Rows[1].campaign_id = ROSE
  /\ Rows[2].campaign_id = ODD
  /\ Rows[3].campaign_id = NONE

\* The campaigns a conversions summary names.
NamedIn(convData) == { convData.campaigns[k].campaign_id : k \in 1..Len(convData.campaigns) }

\* C12: when a conversions summary arrives, the load ends without failing;
\* the row of a campaign the summary does not name has conversions 0, no
\* revenue and the currency "USD", and the row of a campaign CAMPAIGN_META
\* does not know has no game label.
C12_MissingEntryDefaults ==
  [][\A i \in Loads, resp \in ConvResponses :
       (fetchJSON(resp).ok /\ ConvResponse(i, resp)) =>
         /\ load'[i].pc = "done" /\ load'[i].path = "ok"
         /\ Len(AFFILIATE_EXPORT'.byCampaign) = Cardinality(DOMAIN ByCampaignOf(i))
         /\ \A k \in 1..Len(AFFILIATE_EXPORT'.byCampaign) :
              LET r == AFFILIATE_EXPORT'.byCampaign[k]
              IN /\ r.campaign_id \notin NamedIn(resp.json) =>
                      /\ r.conversions = Whole(0)
                      /\ r.revenue = Null
                      /\ r.currency = Str(<<"USD">>)
                 /\ r.campaign_id \notin {ROSE, SUGAR, TITLE} => r.game_label = Null
                 /\ r.campaign_id = ROSE => r.game_label = Str(<<"Rose Bowl Semifinal">>)]_vars

C12_Witness ==
  \E i \in Loads :
    /\ Settled(i, "ok")
    /\ \E k \in 1..Len(Rows) :
         /\ Rows[k].campaign_id = ODD
         /\ Rows[k].game_label = Null
         /\ Rows[k].conversions = Whole(0)
         /\ Rows[k].revenue = Null
         /\ Rows[k].currency = Str(<<"USD">>)
    /\ \E k \in 1..Len(Rows) :
         /\ Rows[k].campaign_id = ROSE
         /\ Rows[k].revenue # Null

\* The parts of s between its commas.
SplitAtCommas(s) ==
  LET B == { p \in 1..Len(s) : s[p] = COMMA }
      n == Cardinality(B)
  IN [k \in 1..(n + 1) |->
        SubSeq(s, IF k = 1 THEN 1 ELSE Nth(B, k - 1) + 1,
                  IF k = n + 1 THEN Len(s) ELSE Nth(B, k) - 1)]

HasComma(s) == \E p \in 1..Len(s) : s[p] = COMMA

\* C13: the conversions request names exactly the keys of by_campaign other
\* than "none", each once, joined by commas (read back at the commas when no
\* key has one in it), while the shares of the provider table are taken of
\* the total the summary reports, the clicks of "none" among them.
C13_NoneNotRequestedButCounted ==
  \A i \in Loads :
    /\ load[i].pc = "conv" =>
         LET ids == load[i].convReq.campaign_ids
         IN /\ ids = DOMAIN ByCampaignOf(i) \ {NONE}
            /\ NONE \notin ids
            /\ load[i].convReq.days = load[i].days
            /\ \A o \in KeyOrders(ids) :
                 LET sent == CampaignIdsParam(o)
                 IN /\ sent # NONE
                    /\ (\A cid \in ids : ~HasComma(cid)) => SplitAtCommas(sent) = o
    /\ (ClicksArrived(i) /\ InFlight \subseteq {i}) =>
         /\ Len(bodyProv) = Cardinality(DOMAIN load[i].clickData.by_provider)
         /\ \A k \in 1..Len(bodyProv) :
              bodyProv[k].share =
                computeShare(bodyProv[k].count, SumOf(ByCampaignOf(i)))

C13_Witness ==
  \E i \in Loads :
    /\ load[i].pc = "conv"
    /\ DOMAIN ByCampaignOf(i) = {NONE, ROSE}
    /\ ByCampaignOf(i)[NONE] = 1
    /\ ByCampaignOf(i)[ROSE] = 1
    /\ load[i].convReq.campaign_ids = {ROSE}
    /\ \E k \in 1..Len(bodyProv) : bodyProv[k].count = 1 /\ bodyProv[k].share = 500

\* C14: an invocation issues at most one click-summary request and at most
\* one conversions request, whatever the answers; once it has ended, after a
\* failure too, none of its requests is out.
C14_NoRetry ==
  \A i \in Loads :
    /\ load[i].clickRequests <= 1
    /\ load[i].convRequests <= 1
    /\ load[i].pc = "done" => (~load[i].clickPending /\ ~load[i].convPending)
    /\ Settled(i, "fatal") => (load[i].clickRequests = 1 /\ load[i].convRequests = 0)
    /\ Settled(i, "partial") => (load[i].clickRequests = 1 /\ load[i].convRequests = 1)

C14_Witness ==
  \E i \in Loads :
    /\ Settled(i, "partial")
    /\ load[i].error # <<>>
    /\ load[i].clickRequests = 1
    /\ load[i].convRequests = 1

\* C15: an invocation's conversions request is issued only after its click
\* summary has arrived with success, and its two requests are never out at
\* the same time.
C15_RequestsInSequence ==
  \A i \in Loads :
    /\ ~(load[i].clickPending /\ load[i].convPending)
    /\ load[i].convRequests > 0 =>
         /\ ~load[i].clickPending
         /\ load[i].clickRequests = 1
         /\ load[i].path # "fatal"
         /\ load[i].clickData \in ClickSummaries
    /\ load[i].clickPending => load[i].pc = "clicks"
    /\ load[i].convPending => load[i].pc = "conv"

C15_Witness ==
  \E i \in Loads :
    /\ load[i].convPending
    /\ ~load[i].clickPending
    /\ load[i].convRequests = 1
    /\ load[i].convReq.campaign_ids # {}

\* The snapshot is the one invocation i built from its click summary.
BuiltFromClicksOf(i) ==
  /\ Settled(i, "ok")
  /\ Len(Rows) = Cardinality(DOMAIN ByCampaignOf(i))
  /\ RowIds = DOMAIN ByCampaignOf(i)
  /\ \A k \in 1..Len(Rows) : Rows[k].clicks = Whole(ByCampaignOf(i)[Rows[k].campaign_id])
  /\ AFFILIATE_EXPORT.meta.total_clicks = Or(load[i].clickData.total_clicks, Whole(0))
  /\ AFFILIATE_EXPORT.meta.click_window = load[i].clickData.window
  /\ AFFILIATE_EXPORT.meta.conv_window_days = Whole(load[i].days)

\* A step that writes the snapshot: an invocation starting or failing at its
\* click request leaves the empty one, an invocation receiving its
\* conversions summary leaves the merge of its own two summaries.
C16_WholeWrite ==
  \/ AFFILIATE_EXPORT' = AFFILIATE_EXPORT
  \/ /\ AFFILIATE_EXPORT' = EmptyExport
     /\ \E i \in Loads :
          /\ load'[i].pc = "clicks" \/ load'[i].path = "fatal"
          /\ load'[i] # load[i]
  \/ \E i \in Loads :
       /\ load[i].pc = "conv"
       /\ load'[i].pc = "done"
       /\ load'[i].path = "ok"
       /\ \E resp \in ConvResponses :
            /\ fetchJSON(resp).ok
            /\ AFFILIATE_EXPORT'.meta.conv_window = resp.json.window
            /\ AFFILIATE_EXPORT' = MergedExport(load[i].clickData, resp.json, load[i].days)

\* C16: the snapshot is only ever replaced as a whole, also when invocations
\* overlap: its rows are none, or the whole row set one invocation built
\* from its own summaries, and each write leaves the writer's value whatever
\* was there before, so the last write stands.
C16_SnapshotReplacedWhole ==
  /\ [](\/ AFFILIATE_EXPORT = EmptyExport
        \/ \E i \in Loads : BuiltFromClicksOf(i))
  /\ [][C16_WholeWrite]_vars

C16_Witness ==
  \E i, j \in Loads :
    /\ i # j
    /\ Settled(i, "ok")
    /\ Settled(j, "ok")
    /\ DOMAIN ByCampaignOf(i) = {ROSE}
    /\ DOMAIN ByCampaignOf(j) = {NONE, ODD}
    /\ Len(bodyCamp) = 3
    /\ bodyCamp[3].campaign = ROSE
    /\ BuiltFromClicksOf(i)

\* The snapshot of the example: one row for CFP-ROSE-2025 with 10 clicks, 2
\* conversions and a revenue of 50.0 in USD, no game label and no revenue
\* per click.
C17_ExampleRow ==
  [campaign_id |-> ROSE, game_label |-> Null, clicks |-> Whole(10), conversions |-> Whole(2),
   revenue |-> Num(5000), currency |-> Str(<<"USD">>), revenue_per_click |-> Null]

\* The first seven fields of the data line of the downloaded text.
C17_FirstSeven == SubSeq(ParseCsv(download.s)[2], 1, 7)

C18_DataOnlyFor2xx ==
  ~fetchOutcome.pending =>
    /\ fetchOutcome.ok =>
         /\ ~fetchResponse.net
         /\ fetchResponse.status \in 200..299
         /\ fetchOutcome.data = fetchResponse.json
         /\ fetchOutcome.data # Null
    /\ (~fetchResponse.net /\ fetchResponse.status \notin 200..299) =>
         /\ ~fetchOutcome.ok
         /\ fetchOutcome.data = Null
         /\ fetchOutcome.error =
              <<"Error: HTTP ">> \o Digits(fetchResponse.status) \o <<": ">> \o fetchResponse.text

C18_Witness ==
  /\ ~fetchOutcome.pending
  /\ ~fetchOutcome.ok
  /\ fetchResponse.status = 300
  /\ fetchResponse.json \in OverlapConvSummaries
  /\ fetchOutcome.error = <<"Error: HTTP ", "3", "0", "0", ": ", "boom">>

\* C20, as claimed: when the load ends with no rows because no campaign but
\* "none" has clicks, the metadata of the snapshot holds the total the click
\* summary reports.
C20_EmptySnapshotHasTotal ==
  \A i \in Loads :
    Settled(i, "empty") =>
      AFFILIATE_EXPORT.meta.total_clicks = Or(load[i].clickData.total_clicks, Whole(0))

\* C20, amended: when the load ends with no rows because no campaign but
\* "none" has clicks, the snapshot is the empty one, without rows and
\* without metadata; the total the click summary reports is in the text of
\* #clicks-meta, and the provider table is shown.
C20_EmptySnapshotTotalShown ==
  \A i \in Loads :
    Settled(i, "empty") =>
      /\ AFFILIATE_EXPORT = EmptyExport
      /\ AFFILIATE_EXPORT.meta.total_clicks = Null
      /\ metaText.kind = "total"
      /\ metaText.total = Or(load[i].clickData.total_clicks, Whole(0))
      /\ exportMeta \in {MsgNoCampaigns, MsgNoExport}
      /\ Len(bodyProv) = Cardinality(DOMAIN load[i].clickData.by_provider)

C20_Witness ==
  \E i \in Loads :
    /\ Settled(i, "empty")
    /\ DOMAIN ByCampaignOf(i) = {NONE}
    /\ ByCampaignOf(i)[NONE] = 1
    /\ metaText.total = Whole(1)
    /\ exportMeta = MsgNoCampaigns

\* The campaign column of the rows the campaign table shows, nothing while
\* the table is hidden.
RenderedCampaigns ==
  IF tableCampShown THEN [k \in 1..Len(bodyCamp) |-> bodyCamp[k].campaign] ELSE <<>>

\* The same column as the rows of the snapshot would fill it.
SnapshotCampaigns ==
  [k \in 1..Len(Rows) |-> IF Rows[k].campaign_id = NONE THEN <<"(none)">> ELSE Rows[k].campaign_id]

\* C19: whenever no invocation is under way, the campaign table shows the
\* campaigns of the snapshot's rows, each once and in the same order, also
\* after invocations overlapped.
C19_TableMatchesSnapshot ==
  Quiescent => RenderedCampaigns = SnapshotCampaigns

\* Every game has an entry under its campaignId whose gameLabel is the
\* game's bowl and whose eventName, groupSize and maxRows are the game's,
\* and the href TicketsHref builds from the entry is the one
\* openTicketsForGame navigates to; a key of no game navigates nowhere.
GamesInSync ==
  /\ \A k \in 1..Len(CFP_GAMES) :
       LET g == CFP_GAMES[k]
           m == CAMPAIGN_META(g.campaignId)
       IN /\ m.gameLabel = g.bowl
          /\ m.eventName = g.eventName
          /\ m.groupSize = g.groupSize
          /\ m.maxRows = g.maxRows
          /\ openTicketsForGame(g.key) = Str(TicketsHref(g.campaignId, m))
  /\ \A key \in GameKeys :
       openTicketsForGame(key) = Null <=> \A k \in 1..Len(CFP_GAMES) : CFP_GAMES[k].key # key

\* The href openTicketsForGame navigates to, by game.
GameHrefs == [k \in 1..Len(CFP_GAMES) |-> openTicketsForGame(CFP_GAMES[k].key)]

\* C21: CAMPAIGN_META is in sync with CFP_GAMES: every game has an entry
\* under its campaignId with the game's bowl as gameLabel and the game's
\* eventName, groupSize and maxRows, so the Tickets link of a game's
\* campaign in the dashboard's table has the href openTicketsForGame
\* navigates to for that game, and the row shows the game's bowl.
C21_MetaInSyncWithGames ==
  /\ GamesInSync
  /\ \A r \in 1..Len(bodyCamp) : \A k \in 1..Len(CFP_GAMES) :
       bodyCamp[r].campaign = CFP_GAMES[k].campaignId =>
         /\ bodyCamp[r].tickets.link
         /\ Str(bodyCamp[r].tickets.href) = GameHrefs[k]
         /\ bodyCamp[r].game = CFP_GAMES[k].bowl.s

\* tickets.html?event_name=Rose+Bowl+CFP+Semifinal+%C2%B7+Team+1+vs+Team+4
\* &campaign_id=CFP-ROSE-2025&group_size=4&max_rows=2
C21_RoseHref ==
  TICKETS_PAGE \o P_EVENT_NAME \o
  << "=", "R", "o", "s", "e", "+", "B", "o", "w", "l", "+", "C", "F", "P", "+",
     "S", "e", "m", "i", "f", "i", "n", "a", "l", "+", "%", "C", "2", "%", "B", "7", "+",
     "T", "e", "a", "m", "+", "1", "+", "v", "s", "+", "T", "e", "a", "m", "+", "4", "&" >>
  \o P_CAMPAIGN_ID \o <<"=">> \o ROSE \o <<"&">> \o P_GROUP_SIZE \o <<"=", "4", "&">>
  \o P_MAX_ROWS \o <<"=", "2">>

C21_Witness ==
  /\ tableCampShown
  /\ \E r \in 1..Len(bodyCamp) :
       /\ bodyCamp[r].campaign = ROSE
       /\ bodyCamp[r].tickets.href = C21_RoseHref
       /\ GameHrefs[1] = Str(C21_RoseHref)
  /\ \E r \in 1..Len(bodyCamp) :
       /\ bodyCamp[r].campaign = ODD
       /\ bodyCamp[r].tickets.href =
            TICKETS_PAGE \o P_CAMPAIGN_ID \o <<"=", "a", "%", "2", "C", "%", "2", "2", "%", "0", "A">>

\* Two invocations or more overlapped and each completed its merge, and none
\* is under way.
BothCompleted ==
  /\ Quiescent
  /\ \A i \in Loads : load[i].pc = "idle" \/ Settled(i, "ok")
  /\ \E i, j \in Loads : i # j /\ Settled(i, "ok") /\ Settled(j, "ok")

\* The day count the invocation triggered last read: every change of
\* #window-select starts an invocation, so it is the count of the value the
\* select holds.
LatestTriggeredDays == getSelectedDays(windowSelect)

C22_WriterDays ==
  \/ AFFILIATE_EXPORT'.meta.conv_window_days = AFFILIATE_EXPORT.meta.conv_window_days
  \/ AFFILIATE_EXPORT'.meta.conv_window_days = Null
  \/ \E i \in Loads :
       /\ load[i].pc = "conv"
       /\ load'[i].pc = "done"
       /\ load'[i].path = "ok"
       /\ AFFILIATE_EXPORT'.meta.conv_window_days = Whole(load[i].days)

Triggered(i) == load[i].pc \in {"idle", "done"} /\ load'[i].pc = "clicks"

\* Invocation i completes its merge in this step: its click request had
\* succeeded and its conversions request now has.
MergeCompleted(i) ==
  /\ load[i].pc = "conv"
  /\ load[i].clickData \in ClickSummaries
  /\ load[i].convPending
  /\ load'[i].pc = "done"
  /\ load'[i].path = "ok"

\* A starting invocation leaves the empty snapshot, and only a completing
\* merge puts rows into the snapshot.
C23_ResetThenMerge ==
  /\ (\E i \in Loads : Triggered(i)) => AFFILIATE_EXPORT' = EmptyExport
  /\ (AFFILIATE_EXPORT'.byCampaign # <<>> /\ AFFILIATE_EXPORT' # AFFILIATE_EXPORT) =>
       \E i \in Loads : MergeCompleted(i)

\* One invocation is under way and no other has run beside it.
SoleLoad == \E i \in Loads : i \in InFlight /\ \A j \in Loads \ {i} : load[j].pc = "idle"

C24_DisabledWhileSearching ==
  /\ ticketsRun.pc = "search" <=> submitBtn.disabled
  /\ submitBtn.text = IF submitBtn.disabled THEN LabelSearching ELSE LabelSearch
  /\ ticketsRun.last \in {"ok", "failed", "invalid"} => ~submitBtn.disabled
  /\ ticketsRun.last = "invalid" => (ticketsRun.pc = "idle" /\ ticketsRun.params = NoParams)
  /\ ticketsRun.pc = "search" =>
       /\ ticketsRun.params # NoParams
       /\ ticketsRun.params.query # <<>>
  /\ \A pg \in CfpPages :
       /\ cfpRun[pg].pc = "search" <=> cfpSubmit[pg]
       /\ cfpRun[pg].last \in {"ok", "failed"} => ~cfpSubmit[pg]
       /\ cfpRun[pg].last = "failed" => resultsBox[pg] = [kind |-> "error", text |-> MsgWentWrong]

C24_Witness ==
  /\ ticketsRun.last = "invalid"
  /\ formError = [shown |-> TRUE, text |-> MsgEnterEventName]
  /\ resultsCard.shown
  /\ ~submitBtn.disabled
  /\ cfpRun["seatgeek"].last = "failed"
  /\ ~cfpSubmit["seatgeek"]
  /\ cfpRun["stubhub"].last = "ok"
  /\ resultsBox["stubhub"].kind = "results"
  /\ ~cfpSubmit["stubhub"]

\* C25. getABVariant always returns "A" or "B", and the assignment sticks:
\* once a call has stored a variant, every later call made while storage can
\* be read and nothing else has changed the item returns that variant and
\* does not write again; two calls with no change of the item between them
\* return different variants only if a storage access threw in one of them.
CallsAt == {k \in 1..Len(abCalls) : abCalls[k].op = "call"}

Unmodified(i, j) == \A k \in i..j : abCalls[k].op = "call"

C25_StickyVariant ==
  /\ \A k \in CallsAt : abCalls[k].ret \in Variants
  /\ \A i \in CallsAt, j \in CallsAt :
       (i < j /\ abCalls[i].wrote /\ Unmodified(i, j) /\ abCalls[j].access # "blocked")
         => /\ abCalls[j].ret = abCalls[i].ret
            /\ ~abCalls[j].wrote
            /\ ~abCalls[j].threw
  /\ \A i \in CallsAt, j \in CallsAt :
       (i < j /\ Unmodified(i, j) /\ abCalls[i].ret # abCalls[j].ret)
         => (abCalls[i].threw \/ abCalls[j].threw)
  /\ \A k \in CallsAt :
       (abCalls[k].wrote /\ Unmodified(k, Len(abCalls))) => abStorage = abCalls[k].ret

C25_Witness ==
  /\ Len(abCalls) = 3
  /\ abCalls[1].op = "call" /\ abCalls[1].wrote
  /\ abCalls[2].op = "call" /\ abCalls[2].access = "readonly"
  /\ abCalls[2].ret = abCalls[1].ret /\ ~abCalls[2].wrote
  /\ abCalls[3].op = "call" /\ abCalls[3].threw
  /\ abCalls[3].ret # abCalls[1].ret
  /\ abStorage = abCalls[1].ret

====
